---------------------------- MODULE Spec2Model ----------------------------
(***************************************************************************)
(* A model of the Aye-Aye Chef client and database schema:                 *)
(*   - utils/ingredientDetection.js  (detectFruits, getRecipeCategories)   *)
(*   - screens/ConfirmScreen.js      (ConfirmScreen, RecipeScreen,         *)
(*                                    ApiService, as found in that file)   *)
(*   - scripts/setup-database.sql, scripts/init-database.sql (the schema)  *)
(*   - App.js, screens/SignInScreen.js, services/auth.js (the sign-in)    *)
(* Each subsystem has its own specification over the shared variables.     *)
(***************************************************************************)
EXTENDS Integers, Sequences, FiniteSets, TLC

VARIABLES
    \* ---- ingredientDetection.js, applied as a pure function
    ingredients,        \* the argument: [isNull, list]
    categories,         \* the value returned by getRecipeCategories, or NotCalled
    df_detected,        \* the value returned by detectFruits, once it was called
    \* ---- ConfirmScreen component state (useState hooks) and route params
    cs_scanKind,        \* "mock" when scanId starts with mock_/manual_/test_, else "real"
    cs_detectedItems,   \* route.params.detectedItems: [isNull, list]
    cs_loading,
    cs_items,
    cs_isFruitDetected,
    cs_selectedRecipeType,
    cs_selectedMealType,
    cs_selectedCookingLevel,
    cs_servings,
    cs_alert,           \* the last Alert.alert shown by ConfirmScreen
    cs_pc,              \* where the screen's async functions stand
    cs_polls,           \* setTimeout re-polls of loadScanResults so far
    cs_getScanCalls,    \* apiService.getScan calls issued so far
    confirmLog,         \* apiService.confirmScan calls: their outcome, in order
    screen,             \* the screen the navigator shows
    recipeParams,       \* route params of the last navigate('Recipe', ...)
    createLog,          \* apiService.createRecipe calls issued, in order
    cs_event,           \* the ConfirmScreen function that ran last
    cs_closure,         \* what the running handleConfirm captured when it was called
    rs_mounted,         \* a RecipeScreen instance is mounted and ran its mount effect
    \* ---- RecipeScreen component state
    rs_loading,
    rs_recipe,
    rs_nutrition,
    rs_recipeOptions,
    rs_showRecipeSelection,
    rs_selectedRecipeIndex,
    rs_alerts,          \* the Alert.alert dialogs shown and not yet answered, oldest first
    rs_calls,           \* the generateRecipe calls of this screen, in order
    rs_event,           \* the RecipeScreen code that took the last step
    rs_selection,       \* the handleRecipeSelection call waiting for getRecipe, if any
    \* ---- one ApiService.apiCall
    ac_endpoint,        \* the wrapper that made the call
    ac_pc,              \* the await the call stands at
    ac_timer,           \* the setTimeout that aborts the controller
    ac_elapsed,         \* ticks since the timer was armed
    ac_response,        \* what fetch and the body read have produced so far
    ac_outcome,         \* how the promise returned by apiCall settled
    ac_authorization,   \* the Authorization header of the request
    \* ---- the database
    db_schema,          \* which script created the tables
    db_users,
    db_scans,
    db_scan_items,
    db_recipes,
    db_meals,
    db_result,          \* outcome of the last statement
    \* ---- CameraScreen
    cam_platform,       \* web (window.document exists) or native
    cam_pc,             \* the await the running handler stands at
    cam_loading,
    cam_image,          \* the uri of the captured image, or none
    cam_alert,          \* the last alert shown
    cam_s3Key,          \* the key the presign call returned
    cam_body,           \* the body of the last POST to the scans endpoint
    cam_processPc,      \* the await the Process Image handler stands at
    cam_log,            \* the calls of the running (or last) capture handler, with their results
    \* ---- SignInScreen, and the sign-out of CameraScreen
    si_email,
    si_password,
    si_isSignUp,
    si_confirmationCode,
    si_needsConfirmation,
    si_loading,
    si_alert,           \* the alert on display: [title, message], or NoAlert
    si_pc,              \* the await the running form handler stands at
    si_checkPc,         \* the await checkCurrentUser stands at
    signOutPc,          \* the await handleSignOut stands at
    authLog             \* the calls of authService since the app started, with their results

-----------------------------------------------------------------------------
(* JavaScript values *)

\* undefined / a missing field of a number-valued property
Undefined == 0 - 1

\* JavaScript truthiness of a number-or-undefined value
Truthy(v) == v # Undefined /\ v # 0

\* a || b
Or2(a, b) == IF Truthy(a) THEN a ELSE b

\* String.prototype.includes
Includes(s, t) ==
    \E i \in 1..(Len(s) - Len(t) + 1) : SubSeq(s, i, i + Len(t) - 1) = t

LowerChar(c) ==
    CASE c = "A" -> "a" [] c = "B" -> "b" [] c = "C" -> "c" [] c = "D" -> "d"
      [] c = "E" -> "e" [] c = "F" -> "f" [] c = "G" -> "g" [] c = "H" -> "h"
      [] c = "I" -> "i" [] c = "J" -> "j" [] c = "K" -> "k" [] c = "L" -> "l"
      [] c = "M" -> "m" [] c = "N" -> "n" [] c = "O" -> "o" [] c = "P" -> "p"
      [] c = "Q" -> "q" [] c = "R" -> "r" [] c = "S" -> "s" [] c = "T" -> "t"
      [] c = "U" -> "u" [] c = "V" -> "v" [] c = "W" -> "w" [] c = "X" -> "x"
      [] c = "Y" -> "y" [] c = "Z" -> "z" [] OTHER -> c

\* String.prototype.toLowerCase
RECURSIVE ToLowerCase(_)
ToLowerCase(s) ==
    IF Len(s) = 0 THEN ""
    ELSE LowerChar(SubSeq(s, 1, 1)) \o ToLowerCase(SubSeq(s, 2, Len(s)))

-----------------------------------------------------------------------------
(* utils/ingredientDetection.js *)

COMMON_FRUITS ==
    { "orange", "lemon", "lime", "grapefruit", "tangerine", "mandarin",
      "strawberry", "blueberry", "raspberry", "blackberry", "cranberry", "cherry",
      "banana", "pineapple", "mango", "papaya", "coconut", "kiwi", "passion fruit",
      "peach", "plum", "apricot", "nectarine",
      "apple", "pear",
      "watermelon", "cantaloupe", "honeydew", "melon",
      "grape", "fig", "date", "pomegranate", "avocado",
      "dragon fruit", "star fruit", "lychee", "rambutan", "durian" }

SMOOTHIE_VEGETABLES ==
    { "spinach", "kale", "carrot", "beet", "cucumber", "celery" }

\* ingredient.label?.toLowerCase() || ''
LabelOf(ingredient) ==
    IF ingredient.hasLabel THEN ToLowerCase(ingredient.label) ELSE ""

\* the body of the forEach callback: isFruit || isSmoothieVegetable
IsFruitOrSmoothieVegetable(ingredient) ==
    LET label == LabelOf(ingredient)
        isFruit == \E fruit \in COMMON_FRUITS :
                       Includes(label, fruit) \/ Includes(fruit, label)
        isSmoothieVegetable == \E veg \in SMOOTHIE_VEGETABLES :
                       Includes(label, veg) \/ Includes(veg, label)
    IN  isFruit \/ isSmoothieVegetable

FruitCount(list) ==
    Cardinality({ i \in 1..Len(list) : IsFruitOrSmoothieVegetable(list[i]) })

\* fruitCount / totalCount >= 0.6
AtLeastSixtyPercent(fruitCount, totalCount) ==
    5 * fruitCount >= 3 * totalCount

\* fruitCount / totalCount > 0.6, over the doubles: for the list lengths of
\* the model k/n and 0.6 compare as the rationals k/n and 3/5 do.
MoreThanSixtyPercent(fruitCount, totalCount) ==
    5 * fruitCount > 3 * totalCount

detectFruits(ings) ==
    IF ings.isNull \/ Len(ings.list) = 0
    THEN FALSE
    ELSE MoreThanSixtyPercent(FruitCount(ings.list), Len(ings.list))

getRecipeCategoriesDessertFirst(ings) ==
    IF detectFruits(ings)
    THEN [ isFruitBased |-> TRUE,
           suggestedCategories |-> <<"smoothie", "dessert">>,
           defaultCategory |-> "dessert" ]
    ELSE [ isFruitBased |-> FALSE,
           suggestedCategories |-> <<"italian", "thai", "mexican", "indian", "mediterranean">>,
           defaultCategory |-> "italian" ]

getRecipeCategories(ings) ==
    LET isFruitBased == detectFruits(ings)
    IN  IF isFruitBased
        THEN [ isFruitBased |-> TRUE,
               suggestedCategories |-> <<"smoothie", "dessert">>,
               defaultCategory |-> "smoothie" ]
        ELSE [ isFruitBased |-> FALSE,
               suggestedCategories |-> <<"italian", "thai", "mexican", "indian", "mediterranean">>,
               defaultCategory |-> "italian" ]


NotCalled == [ isFruitBased |-> FALSE, suggestedCategories |-> << >>,
               defaultCategory |-> "" ]

\* detectFruits has not been called
NotDetected == [ called |-> FALSE, result |-> FALSE ]

-----------------------------------------------------------------------------
(* Bounds and input sets *)

MaxIngredients == 3     \* longest list handed to getRecipeCategories
MaxDetected == 2        \* longest list of detected items a scan returns
MaxPolls == 2           \* re-polls of a scan that is still processing
MaxPassed == 1          \* longest list of detected items the camera screen passes
MaxConfirms == 1        \* presses of the Confirm button that reach the API
MaxGenerateCalls == 2   \* generateRecipe calls of one RecipeScreen
MaxTicks == 8           \* ticks of the clock that times one apiCall
MaxUsers == 2           \* user ids
MaxScans == 2           \* scan ids
MaxScanItems == 2       \* scan_items ids
MaxRecipes == 1         \* recipe ids
MaxMeals == 1           \* meal ids
MaxFruitList == 5        \* longest list handed to detectFruits
MaxServings == 3        \* presses of the servings "+" button count up to this
MaxAuthCalls == 4       \* calls of authService followed in one run of the app

\* the clock of the model advances in ticks of five seconds
TickMs == 5 * 1000

SeqsUpTo(S, n) == UNION { [1..k -> S] : k \in 0..n }

Ingredient(label) == [ hasLabel |-> TRUE, label |-> label ]

\* labels: a fruit, a fruit in capitals, a smoothie vegetable, a label that
\* contains a fruit name, a fragment of a fruit name, the empty label, and
\* labels that match nothing; plus an ingredient without a label.
SampleIngredients ==
    { Ingredient(l) : l \in { "banana", "Apple", "kale", "pineapple juice",
                              "an", "", "rice", "chicken breast" } }
    \cup { [ hasLabel |-> FALSE, label |-> "" ] }

\* labels for the lists of detectFruits: a fruit, a smoothie vegetable, a label
\* that matches nothing, and an ingredient without a label
FruitSamples ==
    { Ingredient("banana"), Ingredient("kale"), Ingredient("rice"),
      [ hasLabel |-> FALSE, label |-> "" ] }

FruitLists ==
    { [ isNull |-> TRUE, list |-> << >> ] }
    \cup { [ isNull |-> FALSE, list |-> l ] : l \in SeqsUpTo(FruitSamples, MaxFruitList) }

IngredientLists ==
    { [ isNull |-> TRUE, list |-> << >> ] }
    \cup { [ isNull |-> FALSE, list |-> l ] : l \in SeqsUpTo(SampleIngredients, MaxIngredients) }

\* an item of a scan as the API (or the camera screen) delivers it
Item(label, grams, grams_est) ==
    [ hasLabel |-> TRUE, label |-> label, grams |-> grams, grams_est |-> grams_est,
      confirmed |-> FALSE, manually_added |-> FALSE ]

ApiItems ==
    { Item("banana", Undefined, 50), Item("rice", 20, Undefined) }

\* items as the camera screen passes them on (scanResult.data.items || [])
PassedItems ==
    { Item("Apple", 0, Undefined), Item("rice", 20, 30) }

ApiItemLists == SeqsUpTo(ApiItems, MaxDetected)

NullList == [ isNull |-> TRUE, list |-> << >> ]

DetectedItemsParams ==
    { NullList } \cup { [ isNull |-> FALSE, list |-> l ] : l \in SeqsUpTo(PassedItems, MaxPassed) }

\* what apiService.getScan resolves to, as far as loadScanResults reads it
GetScanResults ==
    { [ success |-> TRUE, hasData |-> TRUE, malformed |-> FALSE, items |-> l, status |-> "ready" ] :
        l \in ApiItemLists }
    \cup { [ success |-> TRUE, hasData |-> TRUE, malformed |-> FALSE, items |-> << >>,
             status |-> "processing" ],
           [ success |-> TRUE, hasData |-> TRUE, malformed |-> TRUE, items |-> << >>,
             status |-> "ready" ],
           [ success |-> TRUE, hasData |-> FALSE, malformed |-> FALSE, items |-> << >>,
             status |-> "" ],
           [ success |-> FALSE, hasData |-> FALSE, malformed |-> FALSE, items |-> << >>,
             status |-> "" ] }


-----------------------------------------------------------------------------
(* screens/ConfirmScreen.js: ConfirmScreen *)

vars_cat == << ingredients, categories, df_detected >>

vars_ac == << ac_endpoint, ac_pc, ac_timer, ac_elapsed, ac_response, ac_outcome, ac_authorization >>

vars_db == << db_schema, db_users, db_scans, db_scan_items, db_recipes, db_meals, db_result >>

vars_cam == << cam_platform, cam_pc, cam_loading, cam_image, cam_alert, cam_s3Key, cam_body,
               cam_processPc, cam_log >>

vars_auth == << si_email, si_password, si_isSignUp, si_confirmationCode, si_needsConfirmation,
                si_loading, si_alert, si_pc, si_checkPc, signOutPc, authLog >>

vars_rs == << rs_loading, rs_recipe, rs_nutrition, rs_recipeOptions,
              rs_showRecipeSelection, rs_selectedRecipeIndex, rs_alerts, rs_calls,
              rs_event, rs_selection >>

vars_cs == << cs_scanKind, cs_detectedItems, cs_loading, cs_items, cs_isFruitDetected,
              cs_selectedRecipeType, cs_selectedMealType, cs_selectedCookingLevel, cs_servings,
              cs_alert, cs_pc, cs_polls, cs_getScanCalls, confirmLog,
              screen, recipeParams, createLog, cs_event, cs_closure, rs_mounted >>

\* the part of vars_cs that RecipeScreen never writes
vars_confirm == << cs_scanKind, cs_detectedItems, cs_loading, cs_items, cs_isFruitDetected,
                   cs_selectedRecipeType, cs_selectedMealType, cs_selectedCookingLevel, cs_servings,
                   cs_alert, cs_pc, cs_polls, cs_getScanCalls, confirmLog, cs_event, cs_closure >>

NoPreferences ==
    [ cuisines |-> << >>, mealType |-> "", recipeType |-> "", cookingLevel |-> "",
      isFruitDetected |-> FALSE ]

NoParams == [ confirmedItems |-> << >>, servings |-> Undefined, preferences |-> NoPreferences ]

\* the mockItems literals of loadScanResults
MockItem(label) ==
    [ hasLabel |-> TRUE, label |-> label, grams |-> Undefined, grams_est |-> 100,
      confirmed |-> TRUE, manually_added |-> FALSE ]

\* the same map with confirmed: true for every item
ItemsAllConfirmed(list) ==
    [ i \in 1..Len(list) |->
        [ list[i] EXCEPT !.grams = Or2(Or2(list[i].grams, list[i].grams_est), 100),
                         !.grams_est = Or2(Or2(list[i].grams_est, list[i].grams), 100),
                         !.manually_added = FALSE,
                         !.confirmed = TRUE ] ]

\* items.map((item, index) => ({...item, grams, grams_est, manually_added, confirmed}))
ItemsWithFirstConfirmed(list) ==
    [ i \in 1..Len(list) |->
        [ list[i] EXCEPT !.grams = Or2(Or2(list[i].grams, list[i].grams_est), 100),
                         !.grams_est = Or2(Or2(list[i].grams_est, list[i].grams), 100),
                         !.manually_added = FALSE,
                         !.confirmed = (i = 1) ] ]

AsList(items) == [ isNull |-> FALSE, list |-> items ]

InitConfirmScreen ==
    /\ cs_loading = TRUE
    /\ cs_items = << >>
    /\ cs_isFruitDetected = FALSE
    /\ cs_selectedRecipeType = "international"
    /\ cs_selectedMealType = "lunch"
    /\ cs_selectedCookingLevel = "intermediate"
    /\ cs_servings = 2
    /\ cs_alert = "none"
    /\ cs_pc = "mount"
    /\ cs_polls = 0
    /\ cs_getScanCalls = 0
    /\ confirmLog = << >>
    /\ screen = "Confirm"
    /\ recipeParams = NoParams
    /\ createLog = << >>
    /\ cs_event = "other"
    /\ cs_closure = NoParams
    /\ rs_mounted = FALSE

\* useEffect(() => { loadScanResults() }, []) up to the first await
LoadScanResultsStart ==
    /\ cs_pc = "mount"
    /\ IF cs_scanKind = "mock"
       THEN /\ cs_items' = << MockItem("unknown food") >>
            /\ cs_loading' = FALSE
            /\ cs_pc' = "idle"
            /\ cs_event' = "loadScanResults"
            /\ UNCHANGED cs_getScanCalls
       ELSE /\ cs_pc' = "awaitGetScan"
            /\ cs_getScanCalls' = cs_getScanCalls + 1
            /\ cs_event' = "other"
            /\ UNCHANGED << cs_items, cs_loading >>
    /\ UNCHANGED << cs_scanKind, cs_detectedItems, cs_isFruitDetected, cs_selectedRecipeType,
                    cs_selectedMealType, cs_selectedCookingLevel, cs_servings, cs_alert, cs_polls,
                    confirmLog, screen, recipeParams, createLog, cs_closure,
                    rs_mounted >>
    /\ UNCHANGED << vars_cat, vars_rs, vars_ac, vars_db, vars_cam, vars_auth >>

\* the branch of loadScanResults taken when getScan succeeded with items
LoadFromScan(result) ==
    LET itemsWithFirstConfirmed == ItemsWithFirstConfirmed(result.items)
        fruitsDetected == detectFruits(AsList(itemsWithFirstConfirmed))
    IN  /\ cs_items' = itemsWithFirstConfirmed
        /\ cs_isFruitDetected' = fruitsDetected
        /\ cs_selectedRecipeType' = IF fruitsDetected THEN "smoothie"
                                    ELSE cs_selectedRecipeType
        /\ UNCHANGED cs_alert

\* the branch taken when getScan failed and the camera screen passed items
LoadFromDetectedItems ==
    /\ cs_items' = ItemsWithFirstConfirmed(cs_detectedItems.list)
    /\ UNCHANGED << cs_isFruitDetected, cs_selectedRecipeType, cs_alert >>

\* loadScanResults from the await of getScan to its end
LoadScanResultsResume(result) ==
    /\ cs_pc = "awaitGetScan"
    /\ IF result.success /\ result.hasData /\ result.malformed
       THEN \* catch (error): the response's items cannot be mapped
            /\ cs_alert' = "Failed to load scan results"
            /\ cs_items' = << >>
            /\ cs_loading' = FALSE
            /\ cs_pc' = "idle"
            /\ cs_event' = "loadScanResults"
            /\ UNCHANGED << cs_isFruitDetected, cs_selectedRecipeType >>
       ELSE IF result.success /\ result.hasData
       THEN IF Len(result.items) > 0
            THEN /\ LoadFromScan(result)
                 /\ cs_loading' = FALSE
                 /\ cs_pc' = "idle"
                 /\ cs_event' = "loadScanResults"
            ELSE IF result.status = "processing"
            THEN /\ cs_polls < MaxPolls
                 /\ cs_pc' = "pollWait"
                 /\ cs_event' = "other"
                 /\ UNCHANGED << cs_items, cs_loading, cs_isFruitDetected,
                                 cs_selectedRecipeType, cs_alert >>
            ELSE /\ cs_items' = << MockItem("unknown food item") >>
                 /\ cs_loading' = FALSE
                 /\ cs_pc' = "idle"
                 /\ cs_event' = "loadScanResults"
                 /\ UNCHANGED << cs_isFruitDetected, cs_selectedRecipeType, cs_alert >>
       ELSE /\ IF ~ cs_detectedItems.isNull /\ Len(cs_detectedItems.list) > 0
               THEN LoadFromDetectedItems
               ELSE /\ cs_alert' = "Detection Failed"
                    /\ cs_items' = << MockItem("unknown food item") >>
                    /\ UNCHANGED << cs_isFruitDetected, cs_selectedRecipeType >>
            /\ cs_loading' = FALSE
            /\ cs_pc' = "idle"
            /\ cs_event' = "loadScanResults"
    /\ UNCHANGED << cs_scanKind, cs_detectedItems, cs_selectedMealType,
                    cs_selectedCookingLevel, cs_servings, cs_polls, cs_getScanCalls,
                    confirmLog, screen, recipeParams, createLog, cs_closure, rs_mounted >>
    /\ UNCHANGED << vars_cat, vars_rs, vars_ac, vars_db, vars_cam, vars_auth >>

GetScanReturn == \E result \in GetScanResults : LoadScanResultsResume(result)

\* the timer callback returning without calling loadScanResults
PollTimerFireWithoutReload ==
    /\ cs_pc = "pollWait"
    /\ cs_pc' = "idle"
    /\ cs_event' = "other"
    /\ UNCHANGED << cs_scanKind, cs_detectedItems, cs_loading, cs_items, cs_isFruitDetected,
                    cs_selectedRecipeType, cs_selectedMealType, cs_selectedCookingLevel, cs_servings,
                    cs_alert, cs_polls, cs_getScanCalls, confirmLog, screen, recipeParams,
                    createLog, cs_closure, rs_mounted >>
    /\ UNCHANGED << vars_cat, vars_rs, vars_ac, vars_db, vars_cam, vars_auth >>

\* setTimeout(() => { loadScanResults() }, 2000) fires
PollTimerFire ==
    /\ cs_pc = "pollWait"
    /\ cs_pc' = "awaitGetScan"
    /\ cs_polls' = cs_polls + 1
    /\ cs_getScanCalls' = cs_getScanCalls + 1
    /\ cs_event' = "other"
    /\ UNCHANGED << cs_scanKind, cs_detectedItems, cs_loading, cs_items, cs_isFruitDetected,
                    cs_selectedRecipeType, cs_selectedMealType, cs_selectedCookingLevel, cs_servings,
                    cs_alert, confirmLog, screen, recipeParams, createLog,
                    cs_closure, rs_mounted >>
    /\ UNCHANGED << vars_cat, vars_rs, vars_ac, vars_db, vars_cam, vars_auth >>


\* the component renders its main view unless (loading && items.length === 0)
MainViewShown ==
    /\ screen = "Confirm"
    /\ ~ (cs_loading /\ Len(cs_items) = 0)

\* the chips rendered under "Recipe Type:" / "Cuisine Type:"
OfferedRecipeTypes ==
    IF cs_isFruitDetected
    THEN << "Smoothie", "Dessert" >>
    ELSE << "Italian", "Mexican", "Asian", "Indian", "Mediterranean", "American" >>

toggleItemConfirmed(index) ==
    /\ MainViewShown
    /\ index \in 1..Len(cs_items)
    /\ cs_items' = [ cs_items EXCEPT ![index].confirmed = ~ @ ]
    /\ cs_event' = "other"
    /\ UNCHANGED << cs_scanKind, cs_detectedItems, cs_loading, cs_isFruitDetected,
                    cs_selectedRecipeType, cs_selectedMealType, cs_selectedCookingLevel, cs_servings,
                    cs_alert, cs_pc, cs_polls, cs_getScanCalls, confirmLog,
                    screen, recipeParams, createLog, cs_closure, rs_mounted >>
    /\ UNCHANGED << vars_cat, vars_rs, vars_ac, vars_db, vars_cam, vars_auth >>

\* onPress of a recipe type chip: setSelectedRecipeType(recipeType.toLowerCase())
SelectRecipeType(i) ==
    /\ MainViewShown
    /\ i \in 1..Len(OfferedRecipeTypes)
    /\ cs_selectedRecipeType' = ToLowerCase(OfferedRecipeTypes[i])
    /\ cs_event' = "other"
    /\ UNCHANGED << cs_scanKind, cs_detectedItems, cs_loading, cs_items, cs_isFruitDetected,
                    cs_selectedMealType, cs_selectedCookingLevel, cs_servings,
                    cs_alert, cs_pc, cs_polls, cs_getScanCalls, confirmLog,
                    screen, recipeParams, createLog, cs_closure, rs_mounted >>
    /\ UNCHANGED << vars_cat, vars_rs, vars_ac, vars_db, vars_cam, vars_auth >>

\* the chips rendered under "Meal Type:"
OfferedMealTypes == << "Breakfast", "Lunch", "Dinner", "Snack" >>

\* the chips rendered under "Cooking Level:"
OfferedCookingLevels == << "Beginner", "Intermediate", "Advanced" >>

\* onPress of a meal type chip: setSelectedMealType(mealType.toLowerCase())
SelectMealType(i) ==
    /\ MainViewShown
    /\ i \in 1..Len(OfferedMealTypes)
    /\ cs_selectedMealType' = ToLowerCase(OfferedMealTypes[i])
    /\ cs_event' = "other"
    /\ UNCHANGED << cs_scanKind, cs_detectedItems, cs_loading, cs_items, cs_isFruitDetected,
                    cs_selectedRecipeType, cs_selectedCookingLevel, cs_servings,
                    cs_alert, cs_pc, cs_polls, cs_getScanCalls, confirmLog,
                    screen, recipeParams, createLog, cs_closure, rs_mounted >>
    /\ UNCHANGED << vars_cat, vars_rs, vars_ac, vars_db, vars_cam, vars_auth >>

\* onPress of a cooking level chip: setSelectedCookingLevel(level.toLowerCase())
SelectCookingLevel(i) ==
    /\ MainViewShown
    /\ i \in 1..Len(OfferedCookingLevels)
    /\ cs_selectedCookingLevel' = ToLowerCase(OfferedCookingLevels[i])
    /\ cs_event' = "other"
    /\ UNCHANGED << cs_scanKind, cs_detectedItems, cs_loading, cs_items, cs_isFruitDetected,
                    cs_selectedRecipeType, cs_selectedMealType, cs_servings,
                    cs_alert, cs_pc, cs_polls, cs_getScanCalls, confirmLog,
                    screen, recipeParams, createLog, cs_closure, rs_mounted >>
    /\ UNCHANGED << vars_cat, vars_rs, vars_ac, vars_db, vars_cam, vars_auth >>

\* onPress of the "-" button: setServings(Math.max(1, servings - 1))
DecrementServings ==
    /\ MainViewShown
    /\ cs_servings' = IF cs_servings - 1 > 1 THEN cs_servings - 1 ELSE 1
    /\ cs_event' = "other"
    /\ UNCHANGED << cs_scanKind, cs_detectedItems, cs_loading, cs_items, cs_isFruitDetected,
                    cs_selectedRecipeType, cs_selectedMealType, cs_selectedCookingLevel,
                    cs_alert, cs_pc, cs_polls, cs_getScanCalls, confirmLog,
                    screen, recipeParams, createLog, cs_closure, rs_mounted >>
    /\ UNCHANGED << vars_cat, vars_rs, vars_ac, vars_db, vars_cam, vars_auth >>

\* onPress of the "+" button: setServings(servings + 1)
IncrementServings ==
    /\ MainViewShown
    /\ cs_servings < MaxServings
    /\ cs_servings' = cs_servings + 1
    /\ cs_event' = "other"
    /\ UNCHANGED << cs_scanKind, cs_detectedItems, cs_loading, cs_items, cs_isFruitDetected,
                    cs_selectedRecipeType, cs_selectedMealType, cs_selectedCookingLevel,
                    cs_alert, cs_pc, cs_polls, cs_getScanCalls, confirmLog,
                    screen, recipeParams, createLog, cs_closure, rs_mounted >>
    /\ UNCHANGED << vars_cat, vars_rs, vars_ac, vars_db, vars_cam, vars_auth >>

ConfirmedItems(items) == SelectSeq(items, LAMBDA item : item.confirmed)

\* navigationPreferences as handleConfirm builds them
NavigationPreferences ==
    [ cuisines |-> IF cs_isFruitDetected THEN << >> ELSE << cs_selectedRecipeType >>,
      mealType |-> cs_selectedMealType,
      recipeType |-> cs_selectedRecipeType,
      cookingLevel |-> cs_selectedCookingLevel,
      isFruitDetected |-> cs_isFruitDetected ]

\* handleConfirm without its guard on confirmedItems.length
handleConfirmUnguarded ==
    /\ MainViewShown
    /\ ~ cs_loading
    /\ Len(confirmLog) < MaxConfirms
    /\ cs_loading' = TRUE
    /\ confirmLog' = Append(confirmLog, "pending")
    /\ cs_closure' = [ confirmedItems |-> ConfirmedItems(cs_items),
                       servings |-> cs_servings,
                       preferences |-> NavigationPreferences ]
    /\ cs_pc' = "awaitConfirm"
    /\ cs_event' = "handleConfirm"
    /\ UNCHANGED << cs_scanKind, cs_detectedItems, cs_items, cs_isFruitDetected,
                    cs_selectedRecipeType, cs_selectedMealType, cs_selectedCookingLevel, cs_servings,
                    cs_alert, cs_polls, cs_getScanCalls, screen, recipeParams,
                    createLog, rs_mounted >>
    /\ UNCHANGED << vars_cat, vars_rs, vars_ac, vars_db, vars_cam, vars_auth >>

\* handleConfirm navigating without waiting for confirmScan
handleConfirmNoAwait ==
    /\ MainViewShown
    /\ ~ cs_loading
    /\ Len(ConfirmedItems(cs_items)) > 0
    /\ Len(confirmLog) < MaxConfirms
    /\ confirmLog' = Append(confirmLog, "pending")
    /\ cs_closure' = [ confirmedItems |-> ConfirmedItems(cs_items),
                       servings |-> cs_servings,
                       preferences |-> NavigationPreferences ]
    /\ screen' = "Recipe"
    /\ recipeParams' = cs_closure'
    /\ cs_pc' = "awaitConfirm"
    /\ cs_event' = "handleConfirm"
    /\ UNCHANGED << cs_scanKind, cs_detectedItems, cs_items, cs_isFruitDetected,
                    cs_selectedRecipeType, cs_selectedMealType, cs_selectedCookingLevel, cs_servings,
                    cs_alert, cs_polls, cs_getScanCalls, cs_loading,
                    createLog, rs_mounted >>
    /\ UNCHANGED << vars_cat, vars_rs, vars_ac, vars_db, vars_cam, vars_auth >>

\* handleConfirm, pressed while the button is enabled, up to the await of
\* apiService.confirmScan
handleConfirm ==
    /\ MainViewShown
    /\ ~ cs_loading
    /\ LET confirmedItems == ConfirmedItems(cs_items)
       IN  IF Len(confirmedItems) = 0
           THEN /\ cs_alert' = "Please confirm at least one ingredient"
                /\ cs_event' = "handleConfirm"
                /\ UNCHANGED << cs_loading, confirmLog, cs_closure, cs_pc >>
           ELSE /\ Len(confirmLog) < MaxConfirms
                /\ cs_loading' = TRUE
                /\ confirmLog' = Append(confirmLog, "pending")
                /\ cs_closure' = [ confirmedItems |-> confirmedItems,
                                   servings |-> cs_servings,
                                   preferences |-> NavigationPreferences ]
                /\ cs_pc' = "awaitConfirm"
                /\ cs_event' = "handleConfirm"
                /\ UNCHANGED cs_alert
    /\ UNCHANGED << cs_scanKind, cs_detectedItems, cs_items, cs_isFruitDetected,
                    cs_selectedRecipeType, cs_selectedMealType, cs_selectedCookingLevel, cs_servings,
                    cs_polls, cs_getScanCalls, screen, recipeParams,
                    createLog, rs_mounted >>
    /\ UNCHANGED << vars_cat, vars_rs, vars_ac, vars_db, vars_cam, vars_auth >>

\* handleConfirm's continuation reading the state of the latest render instead
\* of the values it captured
handleConfirmResumeLatestState(success) ==
    /\ cs_pc = "awaitConfirm"
    /\ confirmLog' = [ confirmLog EXCEPT ![Len(confirmLog)] =
                          IF success THEN "success" ELSE "failure" ]
    /\ screen' = "Recipe"
    /\ recipeParams' = [ confirmedItems |-> ConfirmedItems(cs_items),
                         servings |-> cs_servings,
                         preferences |-> NavigationPreferences ]
    /\ cs_loading' = FALSE
    /\ cs_pc' = "idle"
    /\ cs_event' = "other"
    /\ cs_closure' = NoParams
    /\ UNCHANGED << cs_scanKind, cs_detectedItems, cs_items, cs_isFruitDetected,
                    cs_selectedRecipeType, cs_selectedMealType, cs_selectedCookingLevel, cs_servings,
                    cs_alert, cs_polls, cs_getScanCalls, createLog, rs_mounted >>
    /\ UNCHANGED << vars_cat, vars_rs, vars_ac, vars_db, vars_cam, vars_auth >>

\* handleConfirm from the return of confirmScan: navigate whatever the
\* response says, then finally setLoading(false)
handleConfirmResume(success) ==
    /\ cs_pc = "awaitConfirm"
    /\ confirmLog' = [ confirmLog EXCEPT ![Len(confirmLog)] =
                          IF success THEN "success" ELSE "failure" ]
    /\ screen' = "Recipe"
    /\ recipeParams' = cs_closure
    /\ cs_loading' = FALSE
    /\ cs_pc' = "idle"
    /\ cs_event' = "other"
    /\ cs_closure' = NoParams
    /\ UNCHANGED << cs_scanKind, cs_detectedItems, cs_items, cs_isFruitDetected,
                    cs_selectedRecipeType, cs_selectedMealType, cs_selectedCookingLevel, cs_servings,
                    cs_alert, cs_polls, cs_getScanCalls, createLog, rs_mounted >>
    /\ UNCHANGED << vars_cat, vars_rs, vars_ac, vars_db, vars_cam, vars_auth >>

ConfirmScanReturn == \E success \in BOOLEAN : handleConfirmResume(success)


-----------------------------------------------------------------------------
(* screens/ConfirmScreen.js: RecipeScreen *)

\* components/CuisineSelector.js: the ids of cuisineOptions
cuisineOptions == { "italian", "thai", "mexican", "indian", "mediterranean" }

NoRecipe == [ source |-> "null", index |-> 0 ]

NoNutrition == [ source |-> "null" ]

\* no handleRecipeSelection call is waiting for getRecipe
NoSelection == [ pc |-> "idle", index |-> 0 ]

\* Math.round(a / b) for a >= 0 and b > 0
MathRound(a, b) == (2 * a + b) \div (2 * b)

\* the nutrition literal generateRecipe and handleRecipeSelection set for a
\* recipe that carries its own data
GeneratedNutrition ==
    [ source |-> "fixed",
      per_serving |-> [ kcal |-> 150, protein_g |-> 3, carb_g |-> 15, fat_g |-> 8 ],
      totals_per_recipe |-> [ kcal |-> 300, protein_g |-> 6, carb_g |-> 30, fat_g |-> 16 ] ]

\* mockNutrition of generateMockRecipe
mockNutrition(servings) ==
    [ source |-> "mock",
      totals_per_recipe |-> [ kcal |-> 300, protein_g |-> 15, carb_g |-> 35, fat_g |-> 12,
                              fiber_g |-> 8 ],
      per_serving |-> [ kcal |-> MathRound(300, servings),
                        protein_g |-> MathRound(15, servings),
                        carb_g |-> MathRound(35, servings),
                        fat_g |-> MathRound(12, servings),
                        fiber_g |-> MathRound(8, servings) ] ]

\* useState(...) initial values that no reachable code path changes afterwards:
\* the setters are called only from the preferences view and from
\* initializePreferences when no preferences were passed.
selectedCuisine(preferences) ==
    IF Len(preferences.cuisines) > 0 /\ ToLowerCase(preferences.cuisines[1]) # ""
    THEN ToLowerCase(preferences.cuisines[1])
    ELSE IF preferences.recipeType # "" THEN preferences.recipeType
    ELSE "international"

selectedSkillLevel(preferences) ==
    IF preferences.cookingLevel # "" THEN preferences.cookingLevel ELSE "intermediate"

selectedMealType(preferences) ==
    IF preferences.mealType # "" THEN preferences.mealType ELSE "lunch"

selectedRecipeCategory(preferences) ==
    IF preferences.recipeType # "" THEN preferences.recipeType ELSE "smoothie"

showPreferences(preferences) ==
    preferences.mealType = "" /\ preferences.recipeType = "" /\ preferences.cookingLevel = ""

\* the body apiService.createRecipe posts for generateRecipe's arguments
CreateRecipeRequest(preferences) ==
    [ cuisine |-> IF preferences.isFruitDetected THEN "healthy"
                  ELSE selectedCuisine(preferences),
      skill_level |-> selectedSkillLevel(preferences),
      meal_type |-> selectedMealType(preferences),
      recipe_category |-> selectedRecipeCategory(preferences),
      test_mode |-> FALSE ]

\* a generateRecipe call at its await of Promise.race([createRecipe, timeoutPromise])
\* setTimeout(() => reject(new Error('Request timeout after 15 seconds')), 15000)
RaceTimeout == 15000

\* a generateRecipe call at its await of Promise.race([createRecipe, timeoutPromise]);
\* elapsed is the time since the call armed its timer, kept while the race is undecided
NewCall == [ pc |-> "awaitCreate", request |-> "inflight", timer |-> "armed", elapsed |-> 0 ]

InitRecipeScreen ==
    /\ rs_loading = TRUE
    /\ rs_recipe = NoRecipe
    /\ rs_nutrition = NoNutrition
    /\ rs_recipeOptions = << >>
    /\ rs_showRecipeSelection = FALSE
    /\ rs_selectedRecipeIndex = 0
    /\ rs_alerts = << >>
    /\ rs_calls = << >>
    /\ rs_event = "other"
    /\ rs_selection = NoSelection

\* RecipeScreen is mounted by the navigation: its useState initial values and
\* its mount effect, which calls generateRecipe unless showPreferences
RecipeScreenMount ==
    /\ screen = "Recipe"
    /\ ~ rs_mounted
    /\ rs_mounted' = TRUE
    /\ rs_loading' = TRUE
    /\ rs_recipe' = NoRecipe
    /\ rs_nutrition' = NoNutrition
    /\ rs_recipeOptions' = << >>
    /\ rs_showRecipeSelection' = FALSE
    /\ rs_selectedRecipeIndex' = 0
    /\ rs_alerts' = << >>
    /\ rs_event' = "other"
    /\ rs_selection' = NoSelection
    /\ IF ~ showPreferences(recipeParams.preferences)
       THEN /\ rs_calls' = << NewCall >>
            /\ createLog' = Append(createLog, CreateRecipeRequest(recipeParams.preferences))
       ELSE /\ rs_calls' = << >>
            /\ UNCHANGED createLog
    /\ UNCHANGED << cs_scanKind, cs_detectedItems, cs_loading, cs_items, cs_isFruitDetected,
                    cs_selectedRecipeType, cs_selectedMealType, cs_selectedCookingLevel, cs_servings,
                    cs_alert, cs_pc, cs_polls, cs_getScanCalls, confirmLog,
                    screen, recipeParams, cs_event, cs_closure >>
    /\ UNCHANGED << vars_cat, vars_ac, vars_db, vars_cam, vars_auth >>

\* the stack navigator's back action: RecipeScreen is unmounted
RecipeGoBack ==
    /\ screen = "Recipe"
    /\ rs_mounted
    /\ screen' = "Confirm"
    /\ rs_mounted' = FALSE
    /\ rs_loading' = TRUE
    /\ rs_recipe' = NoRecipe
    /\ rs_nutrition' = NoNutrition
    /\ rs_recipeOptions' = << >>
    /\ rs_showRecipeSelection' = FALSE
    /\ rs_selectedRecipeIndex' = 0
    /\ rs_alerts' = << >>
    /\ rs_calls' = << >>
    /\ rs_event' = "other"
    /\ rs_selection' = NoSelection
    /\ recipeParams' = NoParams
    /\ UNCHANGED << cs_scanKind, cs_detectedItems, cs_loading, cs_items, cs_isFruitDetected,
                    cs_selectedRecipeType, cs_selectedMealType, cs_selectedCookingLevel, cs_servings,
                    cs_alert, cs_pc, cs_polls, cs_getScanCalls, confirmLog,
                    createLog, cs_event, cs_closure >>
    /\ UNCHANGED << vars_cat, vars_ac, vars_db, vars_cam, vars_auth >>

\* the alert the catch block of generateRecipe shows for an error message
GenerateRecipeAlert(message) ==
    IF Includes(message, "timeout") \/ Includes(message, "Network") \/ Includes(message, "fetch")
    THEN "Connection Issue"
    ELSE IF \/ Includes(message, "Recipe generation failed")
            \/ Includes(message, "AI could not generate recipes")
         THEN "No Recipes Found"
         ELSE "Recipe Generation Failed"

\* what apiService.createRecipe can resolve to: recipe_ids with no recipe, with
\* one recipe carrying its data, with one recipe of the database, with several;
\* the older recipe_id; success without either; and failure envelopes
CreateRecipeResponses ==
    { [ success |-> TRUE, shape |-> "recipe_ids", recipes |-> << >>, error |-> "" ],
      [ success |-> TRUE, shape |-> "recipe_ids", recipes |-> << "generated" >>, error |-> "" ],
      [ success |-> TRUE, shape |-> "recipe_ids", recipes |-> << "database" >>, error |-> "" ],
      [ success |-> TRUE, shape |-> "recipe_ids", recipes |-> << "generated", "database" >>, error |-> "" ],
      [ success |-> TRUE, shape |-> "recipe_id", recipes |-> << >>, error |-> "" ],
      [ success |-> TRUE, shape |-> "none", recipes |-> << >>, error |-> "" ],
      [ success |-> FALSE, shape |-> "none", recipes |-> << >>,
        error |-> "HTTP error! status: 500, body: Recipe generation failed" ],
      [ success |-> FALSE, shape |-> "none", recipes |-> << >>, error |-> "Network request failed" ] }

SetCall(i, pc, request, timer) ==
    [ rs_calls EXCEPT ![i] = [ pc |-> pc, request |-> request, timer |-> timer,
                               elapsed |-> IF pc = "awaitCreate" THEN @.elapsed ELSE 0 ] ]

\* generateRecipe up to its await of the race: a createRecipe request is sent
\* and the 15 s timer armed
GenerateRecipeStart ==
    /\ Len(rs_calls) < MaxGenerateCalls
    /\ rs_calls' = Append(rs_calls, NewCall)
    /\ createLog' = Append(createLog, CreateRecipeRequest(recipeParams.preferences))

\* the catch block of generateRecipe call i
GenerateRecipeCatch(i, message, request, timer) ==
    /\ rs_loading' = FALSE
    /\ rs_alerts' = Append(rs_alerts, GenerateRecipeAlert(message))
    /\ rs_event' = "generateRecipe.catch"
    /\ rs_calls' = SetCall(i, "done", request, timer)
    /\ UNCHANGED << rs_recipe, rs_nutrition, rs_recipeOptions, rs_showRecipeSelection,
                    rs_selectedRecipeIndex >>

\* generateRecipe call i from the return of createRecipe, to its next await
\* or its end
CreateRecipeReturn(i, response) ==
    /\ rs_mounted
    /\ i \in 1..Len(rs_calls)
    /\ rs_calls[i].pc = "awaitCreate"
    /\ rs_calls[i].request = "inflight"
    /\ LET timer == rs_calls[i].timer
       IN  IF response.success /\ response.shape = "recipe_ids"
           THEN /\ rs_recipeOptions' = response.recipes
                /\ IF Len(response.recipes) = 1
                   THEN IF response.recipes[1] = "generated"
                        THEN /\ rs_recipe' = [ source |-> "generated", index |-> 1 ]
                             /\ rs_nutrition' = GeneratedNutrition
                             /\ rs_selectedRecipeIndex' = 0
                             /\ rs_loading' = FALSE
                             /\ rs_calls' = SetCall(i, "done", "completed", timer)
                             /\ rs_event' = "generateRecipe.recipe_ids"
                             /\ UNCHANGED << rs_showRecipeSelection, rs_alerts >>
                        ELSE /\ rs_calls' = SetCall(i, "awaitGetRecipeOfIds", "completed", timer)
                             /\ rs_event' = "generateRecipe.recipe_ids"
                             /\ UNCHANGED << rs_recipe, rs_nutrition, rs_selectedRecipeIndex,
                                             rs_loading, rs_showRecipeSelection, rs_alerts >>
                   ELSE /\ rs_showRecipeSelection' = TRUE
                        /\ rs_loading' = FALSE
                        /\ rs_calls' = SetCall(i, "done", "completed", timer)
                        /\ rs_event' = "generateRecipe.recipe_ids"
                        /\ UNCHANGED << rs_recipe, rs_nutrition, rs_selectedRecipeIndex, rs_alerts >>
           ELSE IF response.success /\ response.shape = "recipe_id"
           THEN /\ rs_calls' = SetCall(i, "awaitGetRecipe", "completed", timer)
                /\ rs_event' = "other"
                /\ UNCHANGED << rs_recipe, rs_nutrition, rs_recipeOptions, rs_selectedRecipeIndex,
                                rs_loading, rs_showRecipeSelection, rs_alerts >>
           ELSE GenerateRecipeCatch(i, IF response.error # "" THEN response.error
                                       ELSE "Unexpected API response format",
                                    "completed", timer)
    /\ UNCHANGED << vars_confirm, screen, recipeParams, createLog, rs_mounted, rs_selection >>
    /\ UNCHANGED << vars_cat, vars_ac, vars_db, vars_cam, vars_auth >>

\* time passes for the calls that wait in their race: an armed timer fires
\* before the clock moves past its delay
RecipeTick ==
    /\ rs_mounted
    /\ \E i \in 1..Len(rs_calls) : rs_calls[i].pc = "awaitCreate"
    /\ \A i \in 1..Len(rs_calls) :
          rs_calls[i].pc = "awaitCreate"
          => /\ rs_calls[i].elapsed + TickMs <= MaxTicks * TickMs
             /\ rs_calls[i].timer = "armed" => rs_calls[i].elapsed + TickMs <= RaceTimeout
    /\ rs_calls' = [ i \in 1..Len(rs_calls) |->
                        IF rs_calls[i].pc = "awaitCreate"
                        THEN [ rs_calls[i] EXCEPT !.elapsed = @ + TickMs ]
                        ELSE rs_calls[i] ]
    /\ rs_event' = "other"
    /\ UNCHANGED << rs_loading, rs_recipe, rs_nutrition, rs_recipeOptions,
                    rs_showRecipeSelection, rs_selectedRecipeIndex, rs_alerts >>
    /\ UNCHANGED << vars_confirm, screen, recipeParams, createLog, rs_mounted, rs_selection >>
    /\ UNCHANGED << vars_cat, vars_ac, vars_db, vars_cam, vars_auth >>

\* the timer callback of call i running without rejecting the race
RaceTimerFireIgnored(i) ==
    /\ rs_mounted
    /\ i \in 1..Len(rs_calls)
    /\ rs_calls[i].pc = "awaitCreate"
    /\ rs_calls[i].timer = "armed"
    /\ rs_calls[i].elapsed = RaceTimeout
    /\ rs_calls' = SetCall(i, "awaitCreate", rs_calls[i].request, "fired")
    /\ rs_event' = "other"
    /\ UNCHANGED << rs_loading, rs_recipe, rs_nutrition, rs_recipeOptions,
                    rs_showRecipeSelection, rs_selectedRecipeIndex, rs_alerts >>
    /\ UNCHANGED << vars_confirm, screen, recipeParams, createLog, rs_mounted, rs_selection >>
    /\ UNCHANGED << vars_cat, vars_ac, vars_db, vars_cam, vars_auth >>

\* the 15 s timer of call i fires first: the race rejects, the catch block
\* runs; the createRecipe request itself goes on
RaceTimerFire(i) ==
    /\ rs_mounted
    /\ i \in 1..Len(rs_calls)
    /\ rs_calls[i].pc = "awaitCreate"
    /\ rs_calls[i].timer = "armed"
    /\ rs_calls[i].elapsed = RaceTimeout
    /\ GenerateRecipeCatch(i, "Request timeout after 15 seconds", rs_calls[i].request, "fired")
    /\ UNCHANGED << vars_confirm, screen, recipeParams, createLog, rs_mounted, rs_selection >>
    /\ UNCHANGED << vars_cat, vars_ac, vars_db, vars_cam, vars_auth >>

\* the request of a call that lost the race ends: with a response, or by the
\* abort of apiCall at 30 s; nobody reads the result
LateRequestEnd(i, aborted) ==
    /\ rs_mounted
    /\ i \in 1..Len(rs_calls)
    /\ rs_calls[i].pc = "done"
    /\ rs_calls[i].request = "inflight"
    /\ rs_calls' = SetCall(i, "done", IF aborted THEN "aborted" ELSE "completed", rs_calls[i].timer)
    /\ rs_event' = "other"
    /\ UNCHANGED << rs_loading, rs_recipe, rs_nutrition, rs_recipeOptions,
                    rs_showRecipeSelection, rs_selectedRecipeIndex, rs_alerts >>
    /\ UNCHANGED << vars_confirm, screen, recipeParams, createLog, rs_mounted, rs_selection >>
    /\ UNCHANGED << vars_cat, vars_ac, vars_db, vars_cam, vars_auth >>

\* generateRecipe call i from the return of apiService.getRecipe
GetRecipeReturn(i, success) ==
    /\ rs_mounted
    /\ i \in 1..Len(rs_calls)
    /\ rs_calls[i].pc \in { "awaitGetRecipeOfIds", "awaitGetRecipe" }
    /\ IF success
       THEN /\ rs_recipe' = [ source |-> "database", index |-> 1 ]
            /\ rs_nutrition' = [ source |-> "database" ]
            /\ rs_selectedRecipeIndex' = IF rs_calls[i].pc = "awaitGetRecipeOfIds"
                                         THEN 0 ELSE rs_selectedRecipeIndex
            /\ rs_loading' = FALSE
            /\ rs_calls' = SetCall(i, "done", rs_calls[i].request, rs_calls[i].timer)
            /\ rs_event' = IF rs_calls[i].pc = "awaitGetRecipeOfIds"
                            THEN "generateRecipe.recipe_ids" ELSE "other"
            /\ UNCHANGED << rs_recipeOptions, rs_showRecipeSelection, rs_alerts >>
       ELSE GenerateRecipeCatch(i, "Failed to fetch recipe details",
                                rs_calls[i].request, rs_calls[i].timer)
    /\ UNCHANGED << vars_confirm, screen, recipeParams, createLog, rs_mounted, rs_selection >>
    /\ UNCHANGED << vars_cat, vars_ac, vars_db, vars_cam, vars_auth >>

\* the Cancel button of the loading view
CancelPress ==
    /\ rs_mounted
    /\ rs_loading
    /\ rs_alerts = << >>
    /\ rs_loading' = FALSE
    /\ rs_alerts' = << "Recipe Generation Cancelled" >>
    /\ rs_event' = "other"
    /\ UNCHANGED << rs_recipe, rs_nutrition, rs_recipeOptions, rs_showRecipeSelection,
                    rs_selectedRecipeIndex, rs_calls >>
    /\ UNCHANGED << vars_confirm, screen, recipeParams, createLog, rs_mounted, rs_selection >>
    /\ UNCHANGED << vars_cat, vars_ac, vars_db, vars_cam, vars_auth >>

\* the buttons of each alert of RecipeScreen, with what their onPress calls
AlertButtons(title) ==
    IF title = "Recipe Generation Cancelled"
    THEN { [ text |-> "Try Mock Recipe", onPress |-> "generateMockRecipe" ],
           [ text |-> "Go Back", onPress |-> "goBack" ],
           [ text |-> "Retry", onPress |-> "generateRecipe" ] }
    ELSE IF title = "No Recipes Found"
    THEN { [ text |-> "Try Again", onPress |-> "generateRecipe" ],
           [ text |-> "Use Mock Recipe", onPress |-> "generateMockRecipe" ],
           [ text |-> "Go Back", onPress |-> "goBack" ] }
    ELSE IF title \in { "Connection Issue", "Recipe Generation Failed" }
    THEN { [ text |-> "Retry", onPress |-> "generateRecipe" ],
           [ text |-> "Use Mock Recipe", onPress |-> "generateMockRecipe" ],
           [ text |-> "Go Back", onPress |-> "goBack" ] }
    ELSE { [ text |-> "OK", onPress |-> "dismiss" ] }

Offers(title, handler) == \E b \in AlertButtons(title) : b.onPress = handler

\* Retry / Try Again of the alert on display: generateRecipe, after
\* setLoading(true) only for the alert of the Cancel button
AlertRetry ==
    /\ rs_mounted
    /\ Len(rs_alerts) > 0
    /\ Offers(Head(rs_alerts), "generateRecipe")
    /\ rs_alerts' = Tail(rs_alerts)
    /\ rs_loading' = IF Head(rs_alerts) = "Recipe Generation Cancelled" THEN TRUE ELSE rs_loading
    /\ GenerateRecipeStart
    /\ rs_event' = "other"
    /\ UNCHANGED << rs_recipe, rs_nutrition, rs_recipeOptions, rs_showRecipeSelection,
                    rs_selectedRecipeIndex >>
    /\ UNCHANGED << vars_confirm, screen, recipeParams, rs_mounted, rs_selection >>
    /\ UNCHANGED << vars_cat, vars_ac, vars_db, vars_cam, vars_auth >>

\* generateMockRecipe without its setNutrition(mockNutrition)
generateMockRecipeWithoutNutrition ==
    /\ rs_recipe' = [ source |-> "mock", index |-> 0 ]
    /\ rs_loading' = FALSE
    /\ rs_event' = "generateMockRecipe"
    /\ UNCHANGED << rs_nutrition, rs_recipeOptions, rs_showRecipeSelection,
                    rs_selectedRecipeIndex, rs_calls >>

\* generateMockRecipe: setRecipe(mockRecipe), setNutrition(mockNutrition),
\* setLoading(false)
generateMockRecipe ==
    /\ rs_recipe' = [ source |-> "mock", index |-> 0 ]
    /\ rs_nutrition' = mockNutrition(recipeParams.servings)
    /\ rs_loading' = FALSE
    /\ rs_event' = "generateMockRecipe"
    /\ UNCHANGED << rs_recipeOptions, rs_showRecipeSelection, rs_selectedRecipeIndex, rs_calls >>

\* Use Mock Recipe / Try Mock Recipe of the alert on display
AlertUseMockRecipe ==
    /\ rs_mounted
    /\ Len(rs_alerts) > 0
    /\ Offers(Head(rs_alerts), "generateMockRecipe")
    /\ rs_alerts' = Tail(rs_alerts)
    /\ generateMockRecipe
    /\ UNCHANGED << vars_confirm, screen, recipeParams, createLog, rs_mounted, rs_selection >>
    /\ UNCHANGED << vars_cat, vars_ac, vars_db, vars_cam, vars_auth >>

\* Go Back of the alert on display: navigation.goBack()
AlertGoBack ==
    /\ Len(rs_alerts) > 0
    /\ Offers(Head(rs_alerts), "goBack")
    /\ RecipeGoBack

\* the view "Choose Your Recipe" is on display
SelectionViewShown ==
    /\ rs_mounted
    /\ ~ showPreferences(recipeParams.preferences)
    /\ ~ rs_loading
    /\ rs_showRecipeSelection /\ Len(rs_recipeOptions) > 0
    /\ rs_alerts = << >>

\* handleRecipeSelection(option, index), pressed in the selection view: to its
\* end for a recipe that carries its data, to the await of getRecipe otherwise
handleRecipeSelection(index) ==
    /\ SelectionViewShown
    /\ rs_selection = NoSelection
    /\ index \in 1..Len(rs_recipeOptions)
    /\ IF rs_recipeOptions[index] = "generated"
       THEN /\ rs_recipe' = [ source |-> "generated", index |-> index ]
            /\ rs_nutrition' = GeneratedNutrition
            /\ rs_selectedRecipeIndex' = index - 1
            /\ rs_showRecipeSelection' = FALSE
            /\ UNCHANGED << rs_loading, rs_selection >>
       ELSE /\ rs_loading' = TRUE
            /\ rs_selection' = [ pc |-> "awaitGetRecipe", index |-> index ]
            /\ UNCHANGED << rs_recipe, rs_nutrition, rs_selectedRecipeIndex,
                            rs_showRecipeSelection >>
    /\ rs_event' = "handleRecipeSelection"
    /\ UNCHANGED << rs_recipeOptions, rs_alerts, rs_calls >>
    /\ UNCHANGED << vars_confirm, screen, recipeParams, createLog, rs_mounted >>
    /\ UNCHANGED << vars_cat, vars_ac, vars_db, vars_cam, vars_auth >>

\* Alert.alert('Error', 'Failed to load selected recipe'): the title is shared
\* with other alerts of the file, so this alert is known by its message
SelectionAlert == "Failed to load selected recipe"

\* a catch block that also leaves the selection view
SelectionGetRecipeReturnLeavingList(success) ==
    /\ rs_mounted
    /\ rs_selection.pc = "awaitGetRecipe"
    /\ IF success
       THEN /\ rs_recipe' = [ source |-> "database", index |-> rs_selection.index ]
            /\ rs_nutrition' = [ source |-> "database" ]
            /\ rs_selectedRecipeIndex' = rs_selection.index - 1
            /\ UNCHANGED rs_alerts
       ELSE /\ rs_alerts' = Append(rs_alerts, SelectionAlert)
            /\ UNCHANGED << rs_recipe, rs_nutrition, rs_selectedRecipeIndex >>
    /\ rs_showRecipeSelection' = FALSE
    /\ rs_loading' = FALSE
    /\ rs_selection' = NoSelection
    /\ rs_event' = "handleRecipeSelection"
    /\ UNCHANGED << rs_recipeOptions, rs_calls >>
    /\ UNCHANGED << vars_confirm, screen, recipeParams, createLog, rs_mounted >>
    /\ UNCHANGED << vars_cat, vars_ac, vars_db, vars_cam, vars_auth >>

\* handleRecipeSelection from the return of getRecipe to its finally
SelectionGetRecipeReturn(success) ==
    /\ rs_mounted
    /\ rs_selection.pc = "awaitGetRecipe"
    /\ IF success
       THEN /\ rs_recipe' = [ source |-> "database", index |-> rs_selection.index ]
            /\ rs_nutrition' = [ source |-> "database" ]
            /\ rs_selectedRecipeIndex' = rs_selection.index - 1
            /\ rs_showRecipeSelection' = FALSE
            /\ UNCHANGED rs_alerts
       ELSE /\ rs_alerts' = Append(rs_alerts, SelectionAlert)
            /\ UNCHANGED << rs_recipe, rs_nutrition, rs_selectedRecipeIndex,
                            rs_showRecipeSelection >>
    /\ rs_loading' = FALSE
    /\ rs_selection' = NoSelection
    /\ rs_event' = "handleRecipeSelection"
    /\ UNCHANGED << rs_recipeOptions, rs_calls >>
    /\ UNCHANGED << vars_confirm, screen, recipeParams, createLog, rs_mounted >>
    /\ UNCHANGED << vars_cat, vars_ac, vars_db, vars_cam, vars_auth >>

\* OK of the alert on display
AlertDismiss ==
    /\ rs_mounted
    /\ Len(rs_alerts) > 0
    /\ Offers(Head(rs_alerts), "dismiss")
    /\ rs_alerts' = Tail(rs_alerts)
    /\ rs_event' = "other"
    /\ UNCHANGED << rs_loading, rs_recipe, rs_nutrition, rs_recipeOptions,
                    rs_showRecipeSelection, rs_selectedRecipeIndex, rs_calls, rs_selection >>
    /\ UNCHANGED << vars_confirm, screen, recipeParams, createLog, rs_mounted >>
    /\ UNCHANGED << vars_cat, vars_ac, vars_db, vars_cam, vars_auth >>

\* handleBackToRecipeList, the back button of the recipe view: the selection
\* view again when there were several options, CameraScreen otherwise
handleBackToRecipeList ==
    /\ rs_mounted
    /\ ~ showPreferences(recipeParams.preferences)
    /\ ~ rs_loading
    /\ ~ (rs_showRecipeSelection /\ Len(rs_recipeOptions) > 0)
    /\ rs_recipe # NoRecipe
    /\ rs_alerts = << >>
    /\ IF Len(rs_recipeOptions) > 1
       THEN /\ rs_showRecipeSelection' = TRUE
            /\ UNCHANGED << screen, rs_mounted, rs_loading, rs_recipe, rs_nutrition,
                            rs_recipeOptions, rs_selectedRecipeIndex, rs_calls, recipeParams >>
       ELSE /\ screen' = "Camera"
            /\ rs_mounted' = FALSE
            /\ rs_loading' = TRUE
            /\ rs_recipe' = NoRecipe
            /\ rs_nutrition' = NoNutrition
            /\ rs_recipeOptions' = << >>
            /\ rs_showRecipeSelection' = FALSE
            /\ rs_selectedRecipeIndex' = 0
            /\ rs_calls' = << >>
            /\ recipeParams' = NoParams
    /\ rs_event' = "other"
    /\ UNCHANGED << rs_alerts, rs_selection, createLog >>
    /\ UNCHANGED << cs_scanKind, cs_detectedItems, cs_loading, cs_items, cs_isFruitDetected,
                    cs_selectedRecipeType, cs_selectedMealType, cs_selectedCookingLevel, cs_servings,
                    cs_alert, cs_pc, cs_polls, cs_getScanCalls, confirmLog, cs_event, cs_closure >>
    /\ UNCHANGED << vars_cat, vars_ac, vars_db, vars_cam, vars_auth >>

\* the Try Again button of the view shown while there is no recipe
TryAgainPress ==
    /\ rs_mounted
    /\ ~ rs_loading
    /\ ~ showPreferences(recipeParams.preferences)
    /\ ~ (rs_showRecipeSelection /\ Len(rs_recipeOptions) > 0)
    /\ rs_recipe = NoRecipe
    /\ rs_alerts = << >>
    /\ GenerateRecipeStart
    /\ rs_event' = "other"
    /\ UNCHANGED << rs_loading, rs_recipe, rs_nutrition, rs_recipeOptions,
                    rs_showRecipeSelection, rs_selectedRecipeIndex, rs_alerts >>
    /\ UNCHANGED << vars_confirm, screen, recipeParams, rs_mounted, rs_selection >>
    /\ UNCHANGED << vars_cat, vars_ac, vars_db, vars_cam, vars_auth >>

-----------------------------------------------------------------------------
(* screens/ConfirmScreen.js: class ApiService *)

\* API_CONFIG.TIMEOUT, in milliseconds
TIMEOUT == 30000

\* the endpoints of the wrappers that go through apiCall
Endpoints ==
    { "POST /uploads/presign", "POST /scans", "GET /scans/{id}",
      "POST /scans/{id}/confirm", "POST /recipes", "GET /recipes/{id}", "POST /meals" }

ErrorMessage(text) == [ text |-> text, seconds |-> 0 ]

\* `Request timed out after ${this.timeout/1000} seconds`
TimedOutMessage == [ text |-> "Request timed out after N seconds",
                     seconds |-> TIMEOUT \div 1000 ]

Pending == [ settled |-> "pending", success |-> FALSE, error |-> ErrorMessage("") ]

\* return { success: true, data }
ReturnData == [ settled |-> "resolved", success |-> TRUE, error |-> ErrorMessage("") ]

\* a catch block that handles the timeout and rethrows everything else
CatchRethrow(name, message) ==
    IF name = "AbortError"
    THEN [ settled |-> "resolved", success |-> FALSE, error |-> TimedOutMessage ]
    ELSE [ settled |-> "rejected", success |-> FALSE, error |-> ErrorMessage(message) ]

\* the catch block of apiCall for an error with this name and message
Catch(name, message) ==
    IF name = "AbortError"
    THEN [ settled |-> "resolved", success |-> FALSE, error |-> TimedOutMessage ]
    ELSE [ settled |-> "resolved", success |-> FALSE, error |-> ErrorMessage(message) ]

NoResponse == [ arrived |-> FALSE, ok |-> FALSE, parsed |-> FALSE ]

InitApiCall ==
    /\ ac_pc = "idle"
    /\ ac_authorization = ""
    /\ ac_timer = "unset"
    /\ ac_elapsed = 0
    /\ ac_response = NoResponse
    /\ ac_outcome = Pending

\* apiCall up to `await this.getAuthHeaders()`
ApiCallStart ==
    /\ ac_pc = "idle"
    /\ ac_pc' = "awaitAuthHeaders"
    /\ UNCHANGED << ac_endpoint, ac_authorization, ac_timer, ac_elapsed, ac_response, ac_outcome >>
    /\ UNCHANGED << vars_cat, vars_cs, vars_rs, vars_db, vars_cam, vars_auth >>

\* a response that leaves the timer running
FetchResolveNoClear(ok) ==
    /\ ac_pc = "awaitFetch"
    /\ ac_timer = "armed"
    /\ ac_response' = [ arrived |-> TRUE, ok |-> ok, parsed |-> FALSE ]
    /\ ac_pc' = IF ok THEN "awaitJson" ELSE "awaitText"
    /\ UNCHANGED << ac_endpoint, ac_authorization, ac_elapsed, ac_outcome, ac_timer >>
    /\ UNCHANGED << vars_cat, vars_cs, vars_rs, vars_db, vars_cam, vars_auth >>

\* getAuthHeaders returned (getUserToken never throws: it yields the token or
\* null); the controller is created, the timer armed and fetch called
ArmTimerAndFetch(token) ==
    /\ ac_pc = "awaitAuthHeaders"
    /\ ac_authorization' = IF token = "null" THEN "" ELSE "Bearer " \o token
    /\ ac_timer' = "armed"
    /\ ac_elapsed' = 0
    /\ ac_pc' = "awaitFetch"
    /\ UNCHANGED << ac_endpoint, ac_response, ac_outcome >>
    /\ UNCHANGED << vars_cat, vars_cs, vars_rs, vars_db, vars_cam, vars_auth >>

\* time passes; an armed timer lets no tick pass its delay without firing
Tick ==
    /\ ac_pc \notin { "idle", "awaitAuthHeaders" }
    /\ ac_elapsed < MaxTicks
    /\ ac_timer = "armed" => (ac_elapsed + 1) * TickMs <= TIMEOUT
    /\ ac_elapsed' = ac_elapsed + 1
    /\ UNCHANGED << ac_endpoint, ac_authorization, ac_pc, ac_timer, ac_response, ac_outcome >>
    /\ UNCHANGED << vars_cat, vars_cs, vars_rs, vars_db, vars_cam, vars_auth >>

\* the timer callback: controller.abort(). A fetch or a body read still
\* pending rejects with an AbortError, which apiCall catches.
TimerFire ==
    /\ ac_timer = "armed"
    /\ ac_elapsed * TickMs >= TIMEOUT
    /\ ac_timer' = "fired"
    /\ IF ac_pc \in { "awaitFetch", "awaitJson", "awaitText" }
       THEN /\ ac_pc' = "done"
            /\ ac_outcome' = Catch("AbortError", "Aborted")
       ELSE UNCHANGED << ac_pc, ac_outcome >>
    /\ UNCHANGED << ac_endpoint, ac_authorization, ac_elapsed, ac_response >>
    /\ UNCHANGED << vars_cat, vars_cs, vars_rs, vars_db, vars_cam, vars_auth >>

\* `await fetch(url, config)` resolves: clearTimeout(timeoutId), then the
\* branch on response.ok up to the await of the body
FetchResolve(ok) ==
    /\ ac_pc = "awaitFetch"
    /\ ac_timer = "armed"
    /\ ac_timer' = "cleared"
    /\ ac_response' = [ arrived |-> TRUE, ok |-> ok, parsed |-> FALSE ]
    /\ ac_pc' = IF ok THEN "awaitJson" ELSE "awaitText"
    /\ UNCHANGED << ac_endpoint, ac_authorization, ac_elapsed, ac_outcome >>
    /\ UNCHANGED << vars_cat, vars_cs, vars_rs, vars_db, vars_cam, vars_auth >>

\* fetch rejects (a network failure): caught; the timer is left armed
FetchReject ==
    /\ ac_pc = "awaitFetch"
    /\ ac_pc' = "done"
    /\ ac_outcome' = Catch("TypeError", "Network request failed")
    /\ UNCHANGED << ac_endpoint, ac_authorization, ac_timer, ac_elapsed, ac_response >>
    /\ UNCHANGED << vars_cat, vars_cs, vars_rs, vars_db, vars_cam, vars_auth >>

\* `await response.json()` on an ok response
ReadJson(parses) ==
    /\ ac_pc = "awaitJson"
    /\ ac_pc' = "done"
    /\ ac_response' = [ ac_response EXCEPT !.parsed = parses ]
    /\ ac_outcome' = IF parses THEN ReturnData
                     ELSE Catch("SyntaxError", "JSON Parse error")
    /\ UNCHANGED << ac_endpoint, ac_authorization, ac_timer, ac_elapsed >>
    /\ UNCHANGED << vars_cat, vars_cs, vars_rs, vars_db, vars_cam, vars_auth >>

\* `await response.text()` on a response that is not ok, then the throw of
\* the HTTP error (or the failure of the read itself)
ReadErrorText(readable) ==
    /\ ac_pc = "awaitText"
    /\ ac_pc' = "done"
    /\ ac_outcome' = IF readable THEN Catch("Error", "HTTP error! status")
                     ELSE Catch("TypeError", "Failed to read body")
    /\ UNCHANGED << ac_endpoint, ac_authorization, ac_timer, ac_elapsed, ac_response >>
    /\ UNCHANGED << vars_cat, vars_cs, vars_rs, vars_db, vars_cam, vars_auth >>

-----------------------------------------------------------------------------
(* scripts/setup-database.sql and scripts/init-database.sql *)

NULL == 0 - 1

UserIds == 1..MaxUsers
ScanIds == 1..MaxScans
ScanItemIds == 1..MaxScanItems
RecipeIds == 1..MaxRecipes
MealIds == 1..MaxMeals

\* the user inserted by init-database.sql ('test-user-123')
TestUser == CHOOSE u \in UserIds : \A v \in UserIds : u <= v

\* CHECK (status IN ('processing','ready','confirmed','completed'))
ScanStatuses == { "processing", "ready", "confirmed", "completed" }

\* the status values written in the model: no value (DEFAULT), one of the
\* enumeration (the one confirm_scan writes), and one outside it
StatusInputs == { "DEFAULT", "confirmed", "archived" }

GramsInputs == { NULL, 100 }

Ids(table) == { row.id : row \in table }

InitDatabase ==
    /\ db_schema = "none"
    /\ db_users = {}
    /\ db_scans = {}
    /\ db_scan_items = {}
    /\ db_recipes = {}
    /\ db_meals = {}
    /\ db_result = "none"

Rejected ==
    /\ db_result' = "rejected"
    /\ UNCHANGED << db_schema, db_users, db_scans, db_scan_items, db_recipes, db_meals >>

\* setup-database.sql: every table is created IF NOT EXISTS, so the script
\* defines the schema only of a database that has none
RunSetupDatabaseSql ==
    /\ db_schema' = IF db_schema = "none" THEN "setup" ELSE db_schema
    /\ db_result' = "ok"
    /\ UNCHANGED << db_users, db_scans, db_scan_items, db_recipes, db_meals >>
    /\ UNCHANGED << vars_cat, vars_cs, vars_rs, vars_ac, vars_cam, vars_auth >>

\* init-database.sql: the simplified tables, created IF NOT EXISTS, and the
\* test user (ON CONFLICT DO NOTHING; not a UUID, so the users table of
\* setup-database.sql refuses it)
RunInitDatabaseSql ==
    /\ db_schema' = IF db_schema = "none" THEN "init" ELSE db_schema
    /\ db_users' = IF db_schema = "setup" THEN db_users ELSE db_users \cup { TestUser }
    /\ db_result' = IF db_schema = "setup" THEN "rejected" ELSE "ok"
    /\ UNCHANGED << db_scans, db_scan_items, db_recipes, db_meals >>
    /\ UNCHANGED << vars_cat, vars_cs, vars_rs, vars_ac, vars_cam, vars_auth >>

\* the tables each script creates
HasTable(table) ==
    \/ db_schema = "setup"
    \/ db_schema = "init" /\ table \in { "users", "scans", "scan_items" }

\* scans.status: the CHECK of setup-database.sql; none in init-database.sql
ScanStatusAccepted(status) ==
    db_schema = "setup" => status \in ScanStatuses

\* scan_items_confirmed_requires_grams, only in setup-database.sql
ConfirmedRequiresGrams(confirmed, grams) ==
    db_schema = "setup" => (confirmed = FALSE \/ grams # NULL)

\* scan_items.grams exists only in setup-database.sql
GramsColumnAccepted(grams) ==
    db_schema = "init" => grams = NULL

\* scan_items.scan_id REFERENCES scans(id), only in setup-database.sql
ScanItemScanAccepted(scan_id) ==
    db_schema = "setup" => scan_id \in Ids(db_scans)

InsertUser(id) ==
    /\ HasTable("users")
    /\ IF id \in db_users
       THEN Rejected
       ELSE /\ db_users' = db_users \cup { id }
            /\ db_result' = "ok"
            /\ UNCHANGED << db_schema, db_scans, db_scan_items, db_recipes, db_meals >>
    /\ UNCHANGED << vars_cat, vars_cs, vars_rs, vars_ac, vars_cam, vars_auth >>

\* ON DELETE CASCADE of recipes.user_id and meals.user_id, and of
\* meals.recipe_id for the recipes that go
DeleteUser(id) ==
    /\ HasTable("users")
    /\ id \in db_users
    /\ db_users' = db_users \ { id }
    /\ LET gone == { r \in db_recipes : r.user_id = id }
       IN  /\ db_recipes' = db_recipes \ gone
           /\ db_meals' = { m \in db_meals : m.user_id # id /\ m.recipe_id \notin Ids(gone) }
    /\ db_result' = "ok"
    /\ UNCHANGED << db_schema, db_scans, db_scan_items >>
    /\ UNCHANGED << vars_cat, vars_cs, vars_rs, vars_ac, vars_cam, vars_auth >>

\* INSERT INTO scans: user_id has no foreign key in either script
InsertScan(id, user_id, status) ==
    /\ HasTable("scans")
    /\ LET value == IF status = "DEFAULT" THEN "processing" ELSE status
       IN  IF id \in Ids(db_scans) \/ ~ScanStatusAccepted(value)
           THEN Rejected
           ELSE /\ db_scans' = db_scans \cup { [ id |-> id, user_id |-> user_id, status |-> value ] }
                /\ db_result' = "ok"
                /\ UNCHANGED << db_schema, db_users, db_scan_items, db_recipes, db_meals >>
    /\ UNCHANGED << vars_cat, vars_cs, vars_rs, vars_ac, vars_cam, vars_auth >>

UpdateScanStatus(id, status) ==
    /\ HasTable("scans")
    /\ id \in Ids(db_scans)
    /\ status # "DEFAULT"
    /\ IF ~ScanStatusAccepted(status)
       THEN Rejected
       ELSE /\ db_scans' = { IF sc.id = id THEN [ sc EXCEPT !.status = status ] ELSE sc : sc \in db_scans }
            /\ db_result' = "ok"
            /\ UNCHANGED << db_schema, db_users, db_scan_items, db_recipes, db_meals >>
    /\ UNCHANGED << vars_cat, vars_cs, vars_rs, vars_ac, vars_cam, vars_auth >>

\* ON DELETE CASCADE of scan_items.scan_id and ON DELETE SET NULL of
\* recipes.scan_id, both only in setup-database.sql
DeleteScan(id) ==
    /\ HasTable("scans")
    /\ id \in Ids(db_scans)
    /\ db_scans' = { sc \in db_scans : sc.id # id }
    /\ db_scan_items' = IF db_schema = "setup"
                        THEN { it \in db_scan_items : it.scan_id # id }
                        ELSE db_scan_items
    /\ db_recipes' = { IF r.scan_id = id THEN [ r EXCEPT !.scan_id = NULL ] ELSE r : r \in db_recipes }
    /\ db_result' = "ok"
    /\ UNCHANGED << db_schema, db_users, db_meals >>
    /\ UNCHANGED << vars_cat, vars_cs, vars_rs, vars_ac, vars_cam, vars_auth >>

InsertScanItem(id, scan_id, confirmed, grams) ==
    /\ HasTable("scan_items")
    /\ IF \/ id \in Ids(db_scan_items)
          \/ ~ScanItemScanAccepted(scan_id)
          \/ ~GramsColumnAccepted(grams)
          \/ ~ConfirmedRequiresGrams(confirmed, grams)
       THEN Rejected
       ELSE /\ db_scan_items' = db_scan_items \cup
                   { [ id |-> id, scan_id |-> scan_id, confirmed |-> confirmed, grams |-> grams ] }
            /\ db_result' = "ok"
            /\ UNCHANGED << db_schema, db_users, db_scans, db_recipes, db_meals >>
    /\ UNCHANGED << vars_cat, vars_cs, vars_rs, vars_ac, vars_cam, vars_auth >>

\* UPDATE scan_items SET confirmed = ..., and grams = ... where the column exists
UpdateScanItem(id, confirmed, grams) ==
    /\ HasTable("scan_items")
    /\ id \in Ids(db_scan_items)
    /\ IF ~GramsColumnAccepted(grams) \/ ~ConfirmedRequiresGrams(confirmed, grams)
       THEN Rejected
       ELSE /\ db_scan_items' = { IF it.id = id
                                  THEN [ it EXCEPT !.confirmed = confirmed, !.grams = grams ]
                                  ELSE it : it \in db_scan_items }
            /\ db_result' = "ok"
            /\ UNCHANGED << db_schema, db_users, db_scans, db_recipes, db_meals >>
    /\ UNCHANGED << vars_cat, vars_cs, vars_rs, vars_ac, vars_cam, vars_auth >>

DeleteScanItem(id) ==
    /\ HasTable("scan_items")
    /\ id \in Ids(db_scan_items)
    /\ db_scan_items' = { it \in db_scan_items : it.id # id }
    /\ db_result' = "ok"
    /\ UNCHANGED << db_schema, db_users, db_scans, db_recipes, db_meals >>
    /\ UNCHANGED << vars_cat, vars_cs, vars_rs, vars_ac, vars_cam, vars_auth >>

\* recipes.user_id REFERENCES users(id), recipes.scan_id REFERENCES scans(id)
InsertRecipe(id, user_id, scan_id) ==
    /\ db_schema # "none"
    /\ IF \/ ~HasTable("recipes")
          \/ id \in Ids(db_recipes)
          \/ user_id \notin db_users
          \/ (scan_id # NULL /\ scan_id \notin Ids(db_scans))
       THEN Rejected
       ELSE /\ db_recipes' = db_recipes \cup { [ id |-> id, user_id |-> user_id, scan_id |-> scan_id ] }
            /\ db_result' = "ok"
            /\ UNCHANGED << db_schema, db_users, db_scans, db_scan_items, db_meals >>
    /\ UNCHANGED << vars_cat, vars_cs, vars_rs, vars_ac, vars_cam, vars_auth >>

\* ON DELETE CASCADE of meals.recipe_id
DeleteRecipe(id) ==
    /\ HasTable("recipes")
    /\ id \in Ids(db_recipes)
    /\ db_recipes' = { r \in db_recipes : r.id # id }
    /\ db_meals' = { m \in db_meals : m.recipe_id # id }
    /\ db_result' = "ok"
    /\ UNCHANGED << db_schema, db_users, db_scans, db_scan_items >>
    /\ UNCHANGED << vars_cat, vars_cs, vars_rs, vars_ac, vars_cam, vars_auth >>

\* meals.user_id REFERENCES users(id), meals.recipe_id REFERENCES recipes(id),
\* CHECK (servings >= 1)
InsertMeal(id, user_id, recipe_id, servings) ==
    /\ db_schema # "none"
    /\ IF \/ ~HasTable("meals")
          \/ id \in Ids(db_meals)
          \/ user_id \notin db_users
          \/ recipe_id \notin Ids(db_recipes)
          \/ ~(servings >= 1)
       THEN Rejected
       ELSE /\ db_meals' = db_meals \cup
                   { [ id |-> id, user_id |-> user_id, recipe_id |-> recipe_id, servings |-> servings ] }
            /\ db_result' = "ok"
            /\ UNCHANGED << db_schema, db_users, db_scans, db_scan_items, db_recipes >>
    /\ UNCHANGED << vars_cat, vars_cs, vars_rs, vars_ac, vars_cam, vars_auth >>

DeleteMeal(id) ==
    /\ HasTable("meals")
    /\ id \in Ids(db_meals)
    /\ db_meals' = { m \in db_meals : m.id # id }
    /\ db_result' = "ok"
    /\ UNCHANGED << db_schema, db_users, db_scans, db_scan_items, db_recipes >>
    /\ UNCHANGED << vars_cat, vars_cs, vars_rs, vars_ac, vars_cam, vars_auth >>

-----------------------------------------------------------------------------
(* screens/ConfirmScreen.js: CameraScreen, and ApiService.startScan *)

\* the keys a presign response carries in the model
S3Keys == { "images/a.jpg", "images/b.jpg" }

\* a data URL as FileReader.readAsDataURL yields it
Base64Images == { "data:image/jpeg;base64,AAAA" }

StringData(value) == [ type |-> "string", value |-> value, s3Key |-> "" ]

ObjectData(s3Key) == [ type |-> "object", value |-> "", s3Key |-> s3Key ]

\* JSON.stringify({ s3Key })
JsonOfS3Key(s3Key) == "{\"s3Key\":\"" \o s3Key \o "\"}"

\* the requestBody ApiService.startScan posts for its argument
startScanBody(imageData) ==
    IF imageData.type = "string"
    THEN imageData.value
    ELSE IF imageData.s3Key # ""
    THEN JsonOfS3Key(imageData.s3Key)
    ELSE "{}"

InitCameraScreen ==
    /\ cam_pc = "idle"
    /\ cam_loading = FALSE
    /\ cam_image = "none"
    /\ cam_alert = "none"
    /\ cam_s3Key = "none"
    /\ cam_body = "none"
    /\ cam_processPc = "idle"
    /\ cam_log = << >>

\* a call made by a capture handler, awaited
Called(step) == [ step |-> step, result |-> "pending" ]

\* the awaited call of the handler has returned
Returned(log, success) ==
    [ log EXCEPT ![Len(log)].result = IF success THEN "success" ELSE "failure" ]

\* handleTakePhoto / handlePickImage up to their first await: on the web
\* handleTakePhoto opens a file input and returns. The buttons are rendered
\* while loading is false; the model follows one run of the handlers at a time.
CaptureStart(handler) ==
    /\ screen = "Camera"
    /\ cam_pc = "idle"
    /\ ~ cam_loading
    /\ cam_loading' = TRUE
    /\ IF handler = "handleTakePhoto" /\ cam_platform = "web"
       THEN /\ cam_pc' = "awaitFileInput"
            /\ cam_log' = << >>
       ELSE /\ cam_pc' = "awaitPhoto"
            /\ cam_log' = << Called(IF handler = "handleTakePhoto"
                                    THEN "takePhoto" ELSE "pickImage") >>
    /\ UNCHANGED << cam_platform, cam_image, cam_alert, cam_s3Key, cam_body, cam_processPc >>
    /\ UNCHANGED << vars_cat, vars_cs, vars_rs, vars_ac, vars_db, vars_auth >>

\* input.onchange and reader.onload of the web file input
FileInputChange(hasFile) ==
    /\ cam_pc = "awaitFileInput"
    /\ cam_pc' = "idle"
    /\ cam_loading' = FALSE
    /\ cam_image' = IF hasFile THEN "data:image/jpeg;base64,AAAA" ELSE cam_image
    /\ UNCHANGED << cam_platform, cam_alert, cam_s3Key, cam_body, cam_processPc, cam_log >>
    /\ UNCHANGED << vars_cat, vars_cs, vars_rs, vars_ac, vars_db, vars_auth >>

\* an early return of a capture handler after Alert.alert('Error', ...)
CameraFail(message) ==
    /\ cam_alert' = message
    /\ cam_loading' = FALSE
    /\ cam_pc' = "idle"
    /\ cam_log' = Returned(cam_log, FALSE)

\* from the return of cameraService.takePhoto / pickImage
PhotoReturn(success) ==
    /\ cam_pc = "awaitPhoto"
    /\ IF success
       THEN /\ cam_image' = "file:///photo.jpg"
            /\ cam_pc' = "awaitPresign"
            /\ cam_log' = Append(Returned(cam_log, TRUE), Called("getPresignedUrl"))
            /\ UNCHANGED << cam_alert, cam_loading >>
       ELSE /\ CameraFail("User canceled")
            /\ UNCHANGED cam_image
    /\ UNCHANGED << cam_platform, cam_s3Key, cam_body, cam_processPc >>
    /\ UNCHANGED << vars_cat, vars_cs, vars_rs, vars_ac, vars_db, vars_auth >>

\* from the return of apiService.getPresignedUrl
PresignReturn(success, s3Key) ==
    /\ cam_pc = "awaitPresign"
    /\ IF success
       THEN /\ cam_s3Key' = s3Key
            /\ cam_pc' = "awaitUpload"
            /\ cam_log' = Append(Returned(cam_log, TRUE), Called("uploadImage"))
            /\ UNCHANGED << cam_alert, cam_loading >>
       ELSE /\ CameraFail("Failed to get upload URL")
            /\ UNCHANGED cam_s3Key
    /\ UNCHANGED << cam_platform, cam_image, cam_body, cam_processPc >>
    /\ UNCHANGED << vars_cat, vars_cs, vars_rs, vars_ac, vars_db, vars_auth >>

\* from the return of apiService.uploadImage, going on to startScan whatever
\* uploadResult.success says
UploadReturnUnchecked(success) ==
    /\ cam_pc = "awaitUpload"
    /\ cam_body' = startScanBody(StringData(cam_s3Key))
    /\ cam_pc' = "awaitStartScan"
    /\ cam_log' = Append(Returned(cam_log, success), Called("startScan"))
    /\ UNCHANGED << cam_alert, cam_loading >>
    /\ UNCHANGED << cam_platform, cam_image, cam_s3Key, cam_processPc >>
    /\ UNCHANGED << vars_cat, vars_cs, vars_rs, vars_ac, vars_db, vars_auth >>

\* from the return of apiService.uploadImage to the request of
\* apiService.startScan(s3Key)
UploadReturn(success) ==
    /\ cam_pc = "awaitUpload"
    /\ IF success
       THEN /\ cam_body' = startScanBody(StringData(cam_s3Key))
            /\ cam_pc' = "awaitStartScan"
            /\ cam_log' = Append(Returned(cam_log, TRUE), Called("startScan"))
            /\ UNCHANGED << cam_alert, cam_loading >>
       ELSE /\ CameraFail("Failed to upload image")
            /\ UNCHANGED cam_body
    /\ UNCHANGED << cam_platform, cam_image, cam_s3Key, cam_processPc >>
    /\ UNCHANGED << vars_cat, vars_cs, vars_rs, vars_ac, vars_db, vars_auth >>

\* navigation.navigate('Confirm', { scanId, imageUri, detectedItems })
NavigateToConfirm(detectedItems) ==
    /\ screen' = "Confirm"
    /\ cs_scanKind' = "real"
    /\ cs_detectedItems' = detectedItems
    /\ UNCHANGED << cs_loading, cs_items, cs_isFruitDetected, cs_selectedRecipeType,
                    cs_selectedMealType, cs_selectedCookingLevel, cs_servings, cs_alert, cs_pc, cs_polls,
                    cs_getScanCalls, confirmLog, recipeParams, createLog, cs_event,
                    cs_closure, rs_mounted >>

\* from the return of apiService.startScan(s3Key) to the end of the handler
StartScanReturn(success) ==
    /\ cam_pc = "awaitStartScan"
    /\ IF success
       THEN /\ cam_loading' = FALSE
            /\ cam_pc' = "idle"
            /\ cam_log' = Append(Returned(cam_log, TRUE),
                                 [ step |-> "navigate", result |-> "success" ])
            /\ NavigateToConfirm(NullList)
            /\ UNCHANGED cam_alert
       ELSE /\ CameraFail("Failed to start scan")
            /\ UNCHANGED vars_cs
    /\ UNCHANGED << cam_platform, cam_image, cam_s3Key, cam_body, cam_processPc >>
    /\ UNCHANGED << vars_cat, vars_rs, vars_ac, vars_db, vars_auth >>

\* the Process Image button, rendered whenever an image is set, up to the
\* await of fetch(image.uri); the model follows one run of it at a time
ProcessImageStart ==
    /\ screen = "Camera"
    /\ cam_processPc = "idle"
    /\ cam_image # "none"
    /\ cam_loading' = TRUE
    /\ cam_processPc' = "awaitBase64"
    /\ UNCHANGED << cam_platform, cam_pc, cam_image, cam_alert, cam_s3Key, cam_body, cam_log >>
    /\ UNCHANGED << vars_cat, vars_cs, vars_rs, vars_ac, vars_db, vars_auth >>

\* the catch and finally of the Process Image handler
ProcessFail(message) ==
    /\ cam_alert' = message
    /\ cam_loading' = FALSE
    /\ cam_processPc' = "idle"

\* the image is read as a data URL and apiService.startScan(base64) requested,
\* or the read fails
Base64Ready(readable, base64) ==
    /\ cam_processPc = "awaitBase64"
    /\ IF readable
       THEN /\ cam_body' = startScanBody(StringData(base64))
            /\ cam_processPc' = "awaitStartScanBase64"
            /\ UNCHANGED << cam_alert, cam_loading >>
       ELSE /\ ProcessFail("AI Detection Failed")
            /\ UNCHANGED cam_body
    /\ UNCHANGED << cam_platform, cam_pc, cam_image, cam_s3Key, cam_log >>
    /\ UNCHANGED << vars_cat, vars_cs, vars_rs, vars_ac, vars_db, vars_auth >>

\* from the return of apiService.startScan(base64) to the end of the handler
StartScanBase64Return(success, hasScanId, items) ==
    /\ cam_processPc = "awaitStartScanBase64"
    /\ IF success /\ hasScanId
       THEN /\ cam_loading' = FALSE
            /\ cam_processPc' = "idle"
            /\ NavigateToConfirm([ isNull |-> FALSE, list |-> items ])
            /\ UNCHANGED cam_alert
       ELSE /\ ProcessFail("AI Detection Failed")
            /\ UNCHANGED vars_cs
    /\ UNCHANGED << cam_platform, cam_pc, cam_image, cam_s3Key, cam_body, cam_log >>
    /\ UNCHANGED << vars_cat, vars_rs, vars_ac, vars_db, vars_auth >>

-----------------------------------------------------------------------------
(* App.js (the stack navigator), screens/SignInScreen.js, services/auth.js,
   and handleSignOut of CameraScreen *)

\* what the user can have typed in the fields of SignInScreen
Emails == { "", "chef@example.com" }

Passwords == { "", "secret" }

ConfirmationCodes == { "", "123456" }

\* error.message of the rejections of aws-amplify/auth
AuthErrors == { "Incorrect username or password." }

NoAlert == [ title |-> "", message |-> "" ]

\* a call of a function of authService, awaited
AuthCalled(fn) == [ fn |-> fn, result |-> "pending" ]

\* the last pending call of fn in the log has returned { success }
AuthReturned(log, fn, success) ==
    LET k == CHOOSE j \in 1..Len(log) :
                 /\ log[j] = AuthCalled(fn)
                 /\ \A l \in (j + 1)..Len(log) : log[l] # AuthCalled(fn)
    IN  [ log EXCEPT ![k].result = IF success THEN "success" ELSE "failure" ]

\* the useState initial values of SignInScreen
SignInScreenState ==
    /\ si_email = ""
    /\ si_password = ""
    /\ si_isSignUp = FALSE
    /\ si_confirmationCode = ""
    /\ si_needsConfirmation = FALSE
    /\ si_loading = FALSE
    /\ si_alert = NoAlert
    /\ si_pc = "idle"

\* <Stack.Navigator initialRouteName="SignIn">: the app starts on SignInScreen,
\* whose mount effect has called checkCurrentUser
InitApp ==
    /\ screen = "SignIn"
    /\ SignInScreenState
    /\ si_checkPc = "awaitGetCurrentUser"
    /\ signOutPc = "idle"
    /\ authLog = << AuthCalled("getCurrentUser") >>

\* the app after checkCurrentUser found a user and replaced SignIn by Camera
SignedInApp ==
    /\ SignInScreenState
    /\ si_checkPc = "done"
    /\ signOutPc = "idle"
    /\ authLog = << [ fn |-> "getCurrentUser", result |-> "success" ] >>

\* navigation.replace('Camera'): SignInScreen is unmounted, CameraScreen mounted
ReplaceByCamera ==
    /\ screen' = "Camera"
    /\ si_email' = ""
    /\ si_password' = ""
    /\ si_isSignUp' = FALSE
    /\ si_confirmationCode' = ""
    /\ si_needsConfirmation' = FALSE
    /\ si_loading' = FALSE
    /\ si_alert' = NoAlert
    /\ si_pc' = "idle"
    /\ si_checkPc' = "done"

\* what no step of SignInScreen writes
SignInFrame ==
    /\ UNCHANGED << vars_confirm, recipeParams, createLog, rs_mounted, signOutPc >>
    /\ UNCHANGED << vars_cat, vars_rs, vars_ac, vars_db, vars_cam >>

\* checkCurrentUser from the return of authService.getCurrentUser
GetCurrentUserReturn(success) ==
    /\ screen = "SignIn"
    /\ si_checkPc = "awaitGetCurrentUser"
    /\ authLog' = AuthReturned(authLog, "getCurrentUser", success)
    /\ IF success
       THEN ReplaceByCamera
       ELSE /\ si_checkPc' = "done"
            /\ UNCHANGED << screen, si_email, si_password, si_isSignUp, si_confirmationCode,
                            si_needsConfirmation, si_loading, si_alert, si_pc >>
    /\ SignInFrame

\* onChangeText of the two fields of the sign-in form
SetCredentials(email, password) ==
    /\ screen = "SignIn"
    /\ ~ si_needsConfirmation
    /\ si_alert = NoAlert
    /\ << email, password >> # << si_email, si_password >>
    /\ si_email' = email
    /\ si_password' = password
    /\ UNCHANGED << screen, si_isSignUp, si_confirmationCode, si_needsConfirmation, si_loading,
                    si_alert, si_pc, si_checkPc, authLog >>
    /\ SignInFrame

\* the link under the button: setIsSignUp(!isSignUp)
ToggleSignUp ==
    /\ screen = "SignIn"
    /\ ~ si_needsConfirmation
    /\ si_alert = NoAlert
    /\ si_isSignUp' = ~ si_isSignUp
    /\ UNCHANGED << screen, si_email, si_password, si_confirmationCode, si_needsConfirmation,
                    si_loading, si_alert, si_pc, si_checkPc, authLog >>
    /\ SignInFrame

\* a handler of the form's button (disabled while loading) up to its await of
\* authService[fn], or to its return when a field is empty
FormHandlerStart(fn, pc) ==
    /\ screen = "SignIn"
    /\ ~ si_needsConfirmation
    /\ ~ si_loading
    /\ si_alert = NoAlert
    /\ IF si_email = "" \/ si_password = ""
       THEN /\ si_alert' = [ title |-> "Error", message |-> "Please enter email and password" ]
            /\ UNCHANGED << si_loading, si_pc, authLog >>
       ELSE /\ Len(authLog) < MaxAuthCalls
            /\ si_loading' = TRUE
            /\ si_pc' = pc
            /\ authLog' = Append(authLog, AuthCalled(fn))
            /\ UNCHANGED si_alert
    /\ UNCHANGED << screen, si_email, si_password, si_isSignUp, si_confirmationCode,
                    si_needsConfirmation, si_checkPc >>
    /\ SignInFrame

\* handleSignIn, the button's onPress unless isSignUp
handleSignIn ==
    /\ ~ si_isSignUp
    /\ FormHandlerStart("signIn", "awaitSignIn")

\* a navigation that skips the test of result.success
handleSignInResumeUnchecked(success, error) ==
    /\ screen = "SignIn"
    /\ si_pc = "awaitSignIn"
    /\ authLog' = AuthReturned(authLog, "signIn", success)
    /\ ReplaceByCamera
    /\ SignInFrame

\* handleSignIn from the return of authService.signIn
handleSignInResume(success, error) ==
    /\ screen = "SignIn"
    /\ si_pc = "awaitSignIn"
    /\ authLog' = AuthReturned(authLog, "signIn", success)
    /\ IF success
       THEN ReplaceByCamera
       ELSE /\ si_loading' = FALSE
            /\ si_pc' = "idle"
            /\ si_alert' = [ title |-> "Sign In Failed", message |-> error ]
            /\ UNCHANGED << screen, si_email, si_password, si_isSignUp, si_confirmationCode,
                            si_needsConfirmation, si_checkPc >>
    /\ SignInFrame

\* handleSignUp, the button's onPress when isSignUp
handleSignUp ==
    /\ si_isSignUp
    /\ FormHandlerStart("signUp", "awaitSignUp")

\* handleSignUp from the return of authService.signUp
handleSignUpResume(success, error) ==
    /\ screen = "SignIn"
    /\ si_pc = "awaitSignUp"
    /\ authLog' = AuthReturned(authLog, "signUp", success)
    /\ si_loading' = FALSE
    /\ si_pc' = "idle"
    /\ IF success
       THEN /\ si_needsConfirmation' = TRUE
            /\ si_alert' = [ title |-> "Success",
                             message |-> "Please check your email for confirmation code" ]
       ELSE /\ si_alert' = [ title |-> "Sign Up Failed", message |-> error ]
            /\ UNCHANGED si_needsConfirmation
    /\ UNCHANGED << screen, si_email, si_password, si_isSignUp, si_confirmationCode, si_checkPc >>
    /\ SignInFrame

\* onChangeText of the field of the confirmation view
SetConfirmationCode(code) ==
    /\ screen = "SignIn"
    /\ si_needsConfirmation
    /\ si_alert = NoAlert
    /\ code # si_confirmationCode
    /\ si_confirmationCode' = code
    /\ UNCHANGED << screen, si_email, si_password, si_isSignUp, si_needsConfirmation, si_loading,
                    si_alert, si_pc, si_checkPc, authLog >>
    /\ SignInFrame

\* handleConfirmSignUp, the button of the confirmation view, up to its await
handleConfirmSignUp ==
    /\ screen = "SignIn"
    /\ si_needsConfirmation
    /\ ~ si_loading
    /\ si_alert = NoAlert
    /\ IF si_confirmationCode = ""
       THEN /\ si_alert' = [ title |-> "Error", message |-> "Please enter confirmation code" ]
            /\ UNCHANGED << si_loading, si_pc, authLog >>
       ELSE /\ Len(authLog) < MaxAuthCalls
            /\ si_loading' = TRUE
            /\ si_pc' = "awaitConfirmSignUp"
            /\ authLog' = Append(authLog, AuthCalled("confirmSignUp"))
            /\ UNCHANGED si_alert
    /\ UNCHANGED << screen, si_email, si_password, si_isSignUp, si_confirmationCode,
                    si_needsConfirmation, si_checkPc >>
    /\ SignInFrame

\* handleConfirmSignUp from the return of authService.confirmSignUp
handleConfirmSignUpResume(success, error) ==
    /\ screen = "SignIn"
    /\ si_pc = "awaitConfirmSignUp"
    /\ authLog' = AuthReturned(authLog, "confirmSignUp", success)
    /\ si_loading' = FALSE
    /\ si_pc' = "idle"
    /\ IF success
       THEN /\ si_needsConfirmation' = FALSE
            /\ si_alert' = [ title |-> "Success", message |-> "Account confirmed! Please sign in." ]
       ELSE /\ si_alert' = [ title |-> "Confirmation Failed", message |-> error ]
            /\ UNCHANGED si_needsConfirmation
    /\ UNCHANGED << screen, si_email, si_password, si_isSignUp, si_confirmationCode, si_checkPc >>
    /\ SignInFrame

\* the link of the confirmation view: setNeedsConfirmation(false)
BackToSignIn ==
    /\ screen = "SignIn"
    /\ si_needsConfirmation
    /\ si_alert = NoAlert
    /\ si_needsConfirmation' = FALSE
    /\ UNCHANGED << screen, si_email, si_password, si_isSignUp, si_confirmationCode, si_loading,
                    si_alert, si_pc, si_checkPc, authLog >>
    /\ SignInFrame

\* OK of the alert of SignInScreen
SignInAlertOk ==
    /\ screen = "SignIn"
    /\ si_alert # NoAlert
    /\ si_alert' = NoAlert
    /\ UNCHANGED << screen, si_email, si_password, si_isSignUp, si_confirmationCode,
                    si_needsConfirmation, si_loading, si_pc, si_checkPc, authLog >>
    /\ SignInFrame

\* handleSignOut of CameraScreen up to its await of authService.signOut; the
\* model follows a sign-out pressed while no capture handler is running
handleSignOut ==
    /\ screen = "Camera"
    /\ signOutPc = "idle"
    /\ cam_pc = "idle"
    /\ cam_processPc = "idle"
    /\ Len(authLog) + 1 < MaxAuthCalls
    /\ signOutPc' = "awaitSignOut"
    /\ authLog' = Append(authLog, AuthCalled("signOut"))
    /\ UNCHANGED << si_email, si_password, si_isSignUp, si_confirmationCode, si_needsConfirmation,
                    si_loading, si_alert, si_pc, si_checkPc >>
    /\ UNCHANGED << vars_cat, vars_cs, vars_rs, vars_ac, vars_db, vars_cam >>

\* handleSignOut from the return of authService.signOut: navigation.replace('SignIn')
\* unmounts CameraScreen and mounts SignInScreen, whose effect calls checkCurrentUser
handleSignOutResume(success) ==
    /\ screen = "Camera"
    /\ signOutPc = "awaitSignOut"
    /\ cam_pc = "idle"
    /\ cam_processPc = "idle"
    /\ signOutPc' = "idle"
    /\ IF success
       THEN /\ screen' = "SignIn"
            /\ si_checkPc' = "awaitGetCurrentUser"
            /\ authLog' = Append(AuthReturned(authLog, "signOut", TRUE), AuthCalled("getCurrentUser"))
            /\ cam_loading' = FALSE
            /\ cam_image' = "none"
            /\ cam_alert' = "none"
            /\ cam_s3Key' = "none"
            /\ cam_body' = "none"
            /\ cam_log' = << >>
       ELSE /\ authLog' = AuthReturned(authLog, "signOut", FALSE)
            /\ UNCHANGED << screen, si_checkPc, cam_loading, cam_image, cam_alert, cam_s3Key,
                            cam_body, cam_log >>
    /\ UNCHANGED << si_email, si_password, si_isSignUp, si_confirmationCode, si_needsConfirmation,
                    si_loading, si_alert, si_pc >>
    /\ UNCHANGED << cam_platform, cam_pc, cam_processPc >>
    /\ UNCHANGED << vars_confirm, recipeParams, createLog, rs_mounted >>
    /\ UNCHANGED << vars_cat, vars_rs, vars_ac, vars_db >>

-----------------------------------------------------------------------------
(* Specification of the pure functions of ingredientDetection.js *)

IdleApi ==
    /\ ac_endpoint = "GET /scans/{id}"
    /\ InitApiCall

ApplyGetRecipeCategories ==
    /\ categories = NotCalled
    /\ categories' = getRecipeCategories(ingredients)
    /\ UNCHANGED << ingredients, df_detected, vars_cs, vars_rs, vars_ac, vars_db, vars_cam, vars_auth >>

ApplyDetectFruits ==
    /\ ~ df_detected.called
    /\ df_detected' = [ called |-> TRUE, result |-> detectFruits(ingredients) ]
    /\ UNCHANGED << ingredients, categories, vars_cs, vars_rs, vars_ac, vars_db, vars_cam, vars_auth >>

InitDetect ==
    /\ ingredients \in FruitLists
    /\ categories = NotCalled
    /\ df_detected = NotDetected
    /\ cs_scanKind = "real"
    /\ cs_detectedItems = NullList
    /\ InitConfirmScreen
    /\ InitRecipeScreen
    /\ IdleApi
    /\ InitDatabase
    /\ cam_platform = "native"
    /\ InitCameraScreen
    /\ SignedInApp

InitCategories ==
    /\ ingredients \in IngredientLists
    /\ categories = NotCalled
    /\ df_detected = NotDetected
    /\ cs_scanKind = "real"
    /\ cs_detectedItems = NullList
    /\ InitConfirmScreen
    /\ InitRecipeScreen
    /\ IdleApi
    /\ InitDatabase
    /\ cam_platform = "native"
    /\ InitCameraScreen
    /\ SignedInApp

-----------------------------------------------------------------------------
(* Specification of ConfirmScreen up to the mount of RecipeScreen *)

InitConfirm ==
    /\ ingredients = NullList
    /\ categories = NotCalled
    /\ df_detected = NotDetected
    /\ cs_scanKind \in { "mock", "real" }
    /\ cs_detectedItems \in DetectedItemsParams
    /\ InitConfirmScreen
    /\ InitRecipeScreen
    /\ IdleApi
    /\ InitDatabase
    /\ cam_platform = "native"
    /\ InitCameraScreen
    /\ SignedInApp

NextConfirm ==
    \/ LoadScanResultsStart
    \/ GetScanReturn
    \/ PollTimerFire
    \/ \E index \in 1..(MaxDetected + MaxPassed) : toggleItemConfirmed(index)
    \/ handleConfirm
    \/ ConfirmScanReturn
    \/ RecipeScreenMount
    \/ RecipeGoBack

-----------------------------------------------------------------------------
(* Specification of loadScanResults alone. getScan settles (apiCall always
   does) and the 2 s timer fires, so both steps are taken when they stay
   enabled; the scan leaves 'processing' after at most MaxPolls re-polls. *)

NextPolling ==
    \/ LoadScanResultsStart
    \/ GetScanReturn
    \/ PollTimerFire

-----------------------------------------------------------------------------
(* Specification of one ApiService.apiCall *)

InitApi ==
    /\ ingredients = NullList
    /\ categories = NotCalled
    /\ df_detected = NotDetected
    /\ cs_scanKind = "real"
    /\ cs_detectedItems = NullList
    /\ InitConfirmScreen
    /\ InitRecipeScreen
    /\ ac_endpoint \in Endpoints
    /\ InitApiCall
    /\ InitDatabase
    /\ cam_platform = "native"
    /\ InitCameraScreen
    /\ SignedInApp

NextApi ==
    \/ ApiCallStart
    \/ \E token \in { "null", "idToken" } : ArmTimerAndFetch(token)
    \/ Tick
    \/ TimerFire
    \/ \E ok \in BOOLEAN : FetchResolve(ok)
    \/ FetchReject
    \/ \E parses \in BOOLEAN : ReadJson(parses)
    \/ \E readable \in BOOLEAN : ReadErrorText(readable)

-----------------------------------------------------------------------------
(* Specification of the database under the statements of its clients *)

InitDb ==
    /\ ingredients = NullList
    /\ categories = NotCalled
    /\ df_detected = NotDetected
    /\ cs_scanKind = "real"
    /\ cs_detectedItems = NullList
    /\ InitConfirmScreen
    /\ InitRecipeScreen
    /\ IdleApi
    /\ InitDatabase
    /\ cam_platform = "native"
    /\ InitCameraScreen
    /\ SignedInApp

NextDb ==
    \/ RunSetupDatabaseSql
    \/ RunInitDatabaseSql
    \/ \E id \in UserIds : InsertUser(id)
    \/ \E id \in UserIds : DeleteUser(id)
    \/ \E id \in ScanIds, user_id \in UserIds, status \in StatusInputs : InsertScan(id, user_id, status)
    \/ \E id \in ScanIds, status \in StatusInputs : UpdateScanStatus(id, status)
    \/ \E id \in ScanIds : DeleteScan(id)
    \/ \E id \in ScanItemIds, scan_id \in ScanIds, confirmed \in BOOLEAN, grams \in GramsInputs :
          InsertScanItem(id, scan_id, confirmed, grams)
    \/ \E id \in ScanItemIds, confirmed \in BOOLEAN, grams \in GramsInputs :
          UpdateScanItem(id, confirmed, grams)
    \/ \E id \in ScanItemIds : DeleteScanItem(id)
    \/ \E id \in RecipeIds, user_id \in UserIds, scan_id \in ScanIds \cup { NULL } :
          InsertRecipe(id, user_id, scan_id)
    \/ \E id \in RecipeIds : DeleteRecipe(id)
    \/ \E id \in MealIds, user_id \in UserIds, recipe_id \in RecipeIds, servings \in { 0, 1 } :
          InsertMeal(id, user_id, recipe_id, servings)
    \/ \E id \in MealIds : DeleteMeal(id)

-----------------------------------------------------------------------------
(* Specification of RecipeScreen from the navigation of handleConfirm *)

InitRecipe ==
    /\ ingredients = NullList
    /\ categories = NotCalled
    /\ df_detected = NotDetected
    /\ cs_scanKind = "real"
    /\ cs_detectedItems = NullList
    /\ cs_loading = FALSE
    /\ \E item \in ApiItems : cs_items = ItemsWithFirstConfirmed(<< item >>)
    /\ cs_isFruitDetected = detectFruits(AsList(cs_items))
    /\ cs_selectedRecipeType = IF cs_isFruitDetected THEN "smoothie" ELSE "international"
    /\ cs_selectedMealType = "lunch"
    /\ cs_selectedCookingLevel = "intermediate"
    /\ cs_servings = 2
    /\ cs_alert = "none"
    /\ cs_pc = "idle"
    /\ cs_polls = 0
    /\ cs_getScanCalls = 1
    /\ confirmLog \in { << "success" >>, << "failure" >> }
    /\ screen = "Recipe"
    /\ recipeParams = [ confirmedItems |-> ConfirmedItems(cs_items),
                        servings |-> cs_servings,
                        preferences |-> NavigationPreferences ]
    /\ createLog = << >>
    /\ cs_event = "other"
    /\ cs_closure = NoParams
    /\ rs_mounted = FALSE
    /\ InitRecipeScreen
    /\ IdleApi
    /\ InitDatabase
    /\ cam_platform = "native"
    /\ InitCameraScreen
    /\ SignedInApp

NextRecipe ==
    \/ RecipeScreenMount
    \/ RecipeTick
    \/ \E i \in 1..MaxGenerateCalls, response \in CreateRecipeResponses : CreateRecipeReturn(i, response)
    \/ \E i \in 1..MaxGenerateCalls : RaceTimerFire(i)
    \/ \E i \in 1..MaxGenerateCalls, aborted \in BOOLEAN : LateRequestEnd(i, aborted)
    \/ \E i \in 1..MaxGenerateCalls, success \in BOOLEAN : GetRecipeReturn(i, success)
    \/ CancelPress
    \/ AlertRetry
    \/ AlertUseMockRecipe
    \/ AlertGoBack
    \/ TryAgainPress
    \/ RecipeGoBack

-----------------------------------------------------------------------------
(* Specification of RecipeScreen with its selection view, for createRecipe
   requests that settle within the delay of the race *)

NextSelection ==
    \/ RecipeScreenMount
    \/ \E i \in 1..MaxGenerateCalls, response \in CreateRecipeResponses : CreateRecipeReturn(i, response)
    \/ \E i \in 1..MaxGenerateCalls, success \in BOOLEAN : GetRecipeReturn(i, success)
    \/ \E index \in 1..2 : handleRecipeSelection(index)
    \/ \E success \in BOOLEAN : SelectionGetRecipeReturn(success)
    \/ handleBackToRecipeList
    \/ CancelPress
    \/ AlertRetry
    \/ AlertUseMockRecipe
    \/ AlertGoBack
    \/ AlertDismiss
    \/ TryAgainPress
    \/ RecipeGoBack

-----------------------------------------------------------------------------
(* Specification of CameraScreen up to the navigation to ConfirmScreen *)

InitCamera ==
    /\ ingredients = NullList
    /\ categories = NotCalled
    /\ df_detected = NotDetected
    /\ cs_scanKind = "real"
    /\ cs_detectedItems = NullList
    /\ cs_loading = TRUE
    /\ cs_items = << >>
    /\ cs_isFruitDetected = FALSE
    /\ cs_selectedRecipeType = "international"
    /\ cs_selectedMealType = "lunch"
    /\ cs_selectedCookingLevel = "intermediate"
    /\ cs_servings = 2
    /\ cs_alert = "none"
    /\ cs_pc = "mount"
    /\ cs_polls = 0
    /\ cs_getScanCalls = 0
    /\ confirmLog = << >>
    /\ screen = "Camera"
    /\ recipeParams = NoParams
    /\ createLog = << >>
    /\ cs_event = "other"
    /\ cs_closure = NoParams
    /\ rs_mounted = FALSE
    /\ InitRecipeScreen
    /\ IdleApi
    /\ InitDatabase
    /\ cam_platform \in { "web", "native" }
    /\ InitCameraScreen
    /\ SignedInApp

NextCamera ==
    \/ \E handler \in { "handleTakePhoto", "handlePickImage" } : CaptureStart(handler)
    \/ \E hasFile \in BOOLEAN : FileInputChange(hasFile)
    \/ \E success \in BOOLEAN : PhotoReturn(success)
    \/ \E success \in BOOLEAN, s3Key \in S3Keys : PresignReturn(success, s3Key)
    \/ \E success \in BOOLEAN : UploadReturn(success)
    \/ \E success \in BOOLEAN : StartScanReturn(success)
    \/ ProcessImageStart
    \/ \E readable \in BOOLEAN, base64 \in Base64Images : Base64Ready(readable, base64)
    \/ \E success \in BOOLEAN, hasScanId \in BOOLEAN, items \in SeqsUpTo(PassedItems, MaxPassed) :
          StartScanBase64Return(success, hasScanId, items)

-----------------------------------------------------------------------------
(* Specification of the app from its start on SignInScreen: the sign-in form,
   the sign-out of CameraScreen and its capture handlers up to the navigation
   to ConfirmScreen *)

InitAuth ==
    /\ ingredients = NullList
    /\ categories = NotCalled
    /\ df_detected = NotDetected
    /\ cs_scanKind = "real"
    /\ cs_detectedItems = NullList
    /\ cs_loading = TRUE
    /\ cs_items = << >>
    /\ cs_isFruitDetected = FALSE
    /\ cs_selectedRecipeType = "international"
    /\ cs_selectedMealType = "lunch"
    /\ cs_selectedCookingLevel = "intermediate"
    /\ cs_servings = 2
    /\ cs_alert = "none"
    /\ cs_pc = "mount"
    /\ cs_polls = 0
    /\ cs_getScanCalls = 0
    /\ confirmLog = << >>
    /\ recipeParams = NoParams
    /\ createLog = << >>
    /\ cs_event = "other"
    /\ cs_closure = NoParams
    /\ rs_mounted = FALSE
    /\ InitRecipeScreen
    /\ IdleApi
    /\ InitDatabase
    /\ cam_platform = "native"
    /\ InitCameraScreen
    /\ InitApp

NextAuth ==
    \/ \E success \in BOOLEAN : GetCurrentUserReturn(success)
    \/ \E email \in Emails, password \in Passwords : SetCredentials(email, password)
    \/ ToggleSignUp
    \/ handleSignIn
    \/ \E success \in BOOLEAN, error \in AuthErrors : handleSignInResume(success, error)
    \/ handleSignUp
    \/ \E success \in BOOLEAN, error \in AuthErrors : handleSignUpResume(success, error)
    \/ \E code \in ConfirmationCodes : SetConfirmationCode(code)
    \/ handleConfirmSignUp
    \/ \E success \in BOOLEAN, error \in AuthErrors : handleConfirmSignUpResume(success, error)
    \/ BackToSignIn
    \/ SignInAlertOk
    \/ handleSignOut
    \/ \E success \in BOOLEAN : handleSignOutResume(success)
    \/ \E handler \in { "handleTakePhoto", "handlePickImage" } : CaptureStart(handler)
    \/ \E success \in BOOLEAN : PhotoReturn(success)
    \/ \E success \in BOOLEAN, s3Key \in S3Keys : PresignReturn(success, s3Key)
    \/ \E success \in BOOLEAN : UploadReturn(success)
    \/ \E success \in BOOLEAN : StartScanReturn(success)

(* Specification of the preference chips of ConfirmScreen, from a loaded scan
   to the createRecipe request of RecipeScreen *)

InitPrefs ==
    /\ ingredients = NullList
    /\ categories = NotCalled
    /\ df_detected = NotDetected
    /\ cs_scanKind = "real"
    /\ cs_detectedItems = NullList
    /\ cs_loading = FALSE
    /\ \E item \in ApiItems : cs_items = ItemsWithFirstConfirmed(<< item >>)
    /\ cs_isFruitDetected = detectFruits(AsList(cs_items))
    /\ cs_selectedRecipeType = IF cs_isFruitDetected THEN "smoothie" ELSE "international"
    /\ cs_selectedMealType = "lunch"
    /\ cs_selectedCookingLevel = "intermediate"
    /\ cs_servings = 2
    /\ cs_alert = "none"
    /\ cs_pc = "idle"
    /\ cs_polls = 0
    /\ cs_getScanCalls = 1
    /\ confirmLog = << >>
    /\ screen = "Confirm"
    /\ recipeParams = NoParams
    /\ createLog = << >>
    /\ cs_event = "loadScanResults"
    /\ cs_closure = NoParams
    /\ rs_mounted = FALSE
    /\ InitRecipeScreen
    /\ IdleApi
    /\ InitDatabase
    /\ cam_platform = "native"
    /\ InitCameraScreen
    /\ SignedInApp

NextPrefs ==
    \/ \E i \in 1..6 : SelectRecipeType(i)
    \/ \E i \in 1..4 : SelectMealType(i)
    \/ \E i \in 1..3 : SelectCookingLevel(i)
    \/ handleConfirm
    \/ ConfirmScanReturn
    \/ RecipeScreenMount

-----------------------------------------------------------------------------
(* Specification of the servings buttons of ConfirmScreen and the nutrition
   RecipeScreen shows for the recipe it ends with *)

NextServings ==
    \/ DecrementServings
    \/ IncrementServings
    \/ handleConfirm
    \/ ConfirmScanReturn
    \/ RecipeScreenMount
    \/ \E i \in 1..MaxGenerateCalls, response \in CreateRecipeResponses : CreateRecipeReturn(i, response)
    \/ \E index \in 1..2 : handleRecipeSelection(index)
    \/ \E success \in BOOLEAN : SelectionGetRecipeReturn(success)
    \/ AlertUseMockRecipe
    \/ AlertDismiss

-----------------------------------------------------------------------------
vars == << vars_cat, vars_cs, vars_rs, vars_ac, vars_db, vars_cam, vars_auth >>

SpecCategories == InitCategories /\ [][ApplyGetRecipeCategories]_vars

SpecDetect == InitDetect /\ [][ApplyDetectFruits]_vars

SpecConfirm == InitConfirm /\ [][NextConfirm]_vars

SpecApi == InitApi /\ [][NextApi]_vars

SpecDb == InitDb /\ [][NextDb]_vars

SpecRecipe == InitRecipe /\ [][NextRecipe]_vars

SpecSelection == InitRecipe /\ [][NextSelection]_vars

SpecCamera == InitCamera /\ [][NextCamera]_vars

SpecAuth == InitAuth /\ [][NextAuth]_vars

\* getScan settles and the 2 s timer fires
FairPolling ==
    /\ WF_vars(LoadScanResultsStart)
    /\ WF_vars(GetScanReturn)
    /\ WF_vars(PollTimerFire)

SpecPolling == InitConfirm /\ [][NextPolling]_vars /\ FairPolling

SpecPrefs == InitPrefs /\ [][NextPrefs]_vars

SpecServings == InitPrefs /\ [][NextServings]_vars

-----------------------------------------------------------------------------
(* Properties *)

\* C1: when handleConfirm runs while no item of the list is confirmed, it shows
\* the alert 'Please confirm at least one ingredient' and does nothing else: no
\* confirmScan call, no navigation, items and loading unchanged.
C1_EmptyConfirmationRejected ==
    [][ (cs_event' = "handleConfirm" /\ Len(ConfirmedItems(cs_items)) = 0)
        => /\ cs_alert' = "Please confirm at least one ingredient"
           /\ confirmLog' = confirmLog
           /\ screen' = screen
           /\ recipeParams' = recipeParams
           /\ cs_items' = cs_items
           /\ cs_loading' = cs_loading
           /\ cs_pc' = cs_pc ]_vars

C1_Witness ==
    /\ cs_event = "handleConfirm"
    /\ Len(cs_items) > 0
    /\ Len(ConfirmedItems(cs_items)) = 0
    /\ cs_alert = "Please confirm at least one ingredient"
    /\ screen = "Confirm"

\* C2: getRecipeCategories returns isFruitBased true with suggestedCategories
\* exactly smoothie, dessert and defaultCategory smoothie if and only if
\* detectFruits holds of the ingredients; for every other list, null and empty
\* ones included, it returns isFruitBased false with the five cuisines italian,
\* thai, mexican, indian, mediterranean and defaultCategory italian.
C2_CategoriesFollowDetectFruits ==
    categories # NotCalled
    => /\ (categories.isFruitBased <=> detectFruits(ingredients))
       /\ categories.isFruitBased
          => /\ categories.suggestedCategories = << "smoothie", "dessert" >>
             /\ categories.defaultCategory = "smoothie"
       /\ ~categories.isFruitBased
          => /\ categories.suggestedCategories =
                   << "italian", "thai", "mexican", "indian", "mediterranean" >>
             /\ categories.defaultCategory = "italian"
       /\ (ingredients.isNull \/ Len(ingredients.list) = 0) => ~categories.isFruitBased

C2_Witness ==
    /\ categories # NotCalled
    /\ categories.isFruitBased
    /\ categories.defaultCategory = "smoothie"
    /\ ~ingredients.isNull
    /\ Len(ingredients.list) = MaxIngredients
    /\ \E i \in 1..Len(ingredients.list) : ~IsFruitOrSmoothieVegetable(ingredients.list[i])

\* C3: whenever the list loaded by loadScanResults is fruit-based, then after
\* the load isFruitDetected is true, selectedRecipeType is 'smoothie' and the
\* recipe types offered are exactly Smoothie and Dessert, on every load path.
C3_FruitLoadOffersSmoothieDessert ==
    (cs_event = "loadScanResults" /\ detectFruits(AsList(cs_items)))
    => /\ cs_isFruitDetected
       /\ cs_selectedRecipeType = "smoothie"
       /\ OfferedRecipeTypes = << "Smoothie", "Dessert" >>

\* C4: in every reachable database state no scan_items row has confirmed =
\* TRUE while its gram amount is NULL.
C4_ConfirmedItemsHaveGrams ==
    \A it \in db_scan_items : ~(it.confirmed /\ it.grams = NULL)

\* C5: every scans row has a status in processing, ready, confirmed,
\* completed in every reachable database state.
C5_ScanStatusEnumerated ==
    \A sc \in db_scans : sc.status \in ScanStatuses

\* C6: no scan_items row references a missing scan, no recipe or meal
\* references a missing user, and no meal references a missing recipe.
C6_ReferentialIntegrity ==
    /\ \A it \in db_scan_items : it.scan_id \in Ids(db_scans)
    /\ \A r \in db_recipes : r.user_id \in db_users
    /\ \A m \in db_meals : m.user_id \in db_users /\ m.recipe_id \in Ids(db_recipes)

\* C7: apiCall never rejects; when it has settled it has resolved to an
\* envelope with success true exactly when the response was ok and its body
\* parsed as JSON, and otherwise to success false with an error message.
C7_ApiCallResolvesToEnvelope ==
    /\ ac_outcome.settled # "rejected"
    /\ ac_pc = "done" <=> ac_outcome.settled = "resolved"
    /\ ac_outcome.settled = "resolved"
       => /\ ac_outcome.success <=> (ac_response.arrived /\ ac_response.ok /\ ac_response.parsed)
          /\ ~ac_outcome.success => ac_outcome.error.text # ""

C7_Witness ==
    /\ ac_outcome.settled = "resolved"
    /\ ~ac_outcome.success
    /\ ac_response.arrived /\ ac_response.ok /\ ~ac_response.parsed
    /\ ac_outcome.error = ErrorMessage("JSON Parse error")

\* C8: the wait for the response never outlasts TIMEOUT (30000 ms); when the
\* timer fires while fetch has produced no response the call resolves to
\* success false with 'Request timed out after 30 seconds'; and a call that
\* received its response has its timer cleared and never carries that error.
C8_RequestTimeoutBoundsTheCall ==
    /\ [](/\ TIMEOUT = 30000
          /\ ac_pc = "awaitFetch" => ac_timer = "armed" /\ ac_elapsed * TickMs <= TIMEOUT
          /\ ac_response.arrived => ac_timer = "cleared" /\ ac_outcome.error # TimedOutMessage
          /\ ac_outcome.error = TimedOutMessage => ac_elapsed * TickMs >= TIMEOUT)
    /\ [][ (ac_pc = "awaitFetch" /\ ac_timer = "armed" /\ ac_timer' = "fired")
           => /\ ac_elapsed * TickMs >= TIMEOUT
              /\ ac_pc' = "done"
              /\ ac_outcome' = [ settled |-> "resolved", success |-> FALSE,
                                 error |-> [ text |-> "Request timed out after N seconds",
                                             seconds |-> 30 ] ] ]_vars

C8_Witness ==
    /\ ac_timer = "fired"
    /\ ac_elapsed * TickMs = TIMEOUT
    /\ ~ac_response.arrived
    /\ ac_outcome = [ settled |-> "resolved", success |-> FALSE, error |-> TimedOutMessage ]

\* C10: at any time at most one createRecipe request issued by RecipeScreen
\* is outstanding (sent, and neither completed nor aborted).
C10_AtMostOneCreateRecipeOutstanding ==
    Cardinality({ i \in 1..Len(rs_calls) : rs_calls[i].request = "inflight" }) <= 1

\* C11: when generateRecipe fails (failure envelope or unexpected shape from
\* createRecipe, getRecipe failure, or the 15 s timer), loading becomes false
\* and an alert offers retrying, the mock recipe and going back, without a
\* recipe being installed; the mock recipe appears only by the user's choice
\* in an alert, and that choice leaves recipe and nutrition non-null and
\* loading false.
C11_FailureOffersRetryMockBack ==
    /\ [][ rs_event' = "generateRecipe.catch"
           => /\ ~ rs_loading'
              /\ Len(rs_alerts') = Len(rs_alerts) + 1
              /\ { b.onPress : b \in AlertButtons(rs_alerts'[Len(rs_alerts')]) }
                    = { "generateRecipe", "generateMockRecipe", "goBack" }
              /\ rs_recipe' = rs_recipe /\ rs_nutrition' = rs_nutrition ]_vars
    /\ [][ (\E i \in 1..Len(rs_calls) :
               /\ rs_calls[i].timer = "armed"
               /\ Len(rs_calls') >= i /\ rs_calls'[i].timer = "fired")
           => rs_event' = "generateRecipe.catch" ]_vars
    /\ [][ (rs_recipe'.source = "mock" /\ rs_recipe.source # "mock")
           => /\ rs_event' = "generateMockRecipe"
              /\ Len(rs_alerts) > 0 /\ rs_alerts' = Tail(rs_alerts)
              /\ Offers(Head(rs_alerts), "generateMockRecipe") ]_vars
    /\ [](rs_event = "generateMockRecipe"
          => rs_recipe # NoRecipe /\ rs_nutrition # NoNutrition /\ ~ rs_loading)

C11_Witness ==
    /\ rs_event = "generateMockRecipe"
    /\ rs_recipe.source = "mock" /\ rs_nutrition.source = "mock" /\ ~ rs_loading
    /\ \E i \in 1..Len(rs_calls) : rs_calls[i].pc = "done" /\ rs_calls[i].timer = "fired"

\* C12: when the client starts a scan for an uploaded image identified by its
\* S3 key, the body of the POST to the scans endpoint is the JSON object
\* {"s3Key": <that key>}.
C12_StartScanPostsJsonS3Key ==
    cam_pc = "awaitStartScan" => cam_body = JsonOfS3Key(cam_s3Key)

\* C9 as stated: the Recipe screen is entered, and createRecipe issued, only
\* after a confirmScan call returned success.
C9_GenerateOnlyAfterConfirmSuccess ==
    (screen = "Recipe" \/ Len(createLog) > 0)
    => \E i \in 1..Len(confirmLog) : confirmLog[i] = "success"

\* C9 as amended: the Recipe screen is entered, and createRecipe issued, only
\* after a confirmScan call has returned, with success or with failure; and no
\* createRecipe is issued before the navigation that follows that return.
C9_GenerateOnlyAfterConfirmReturned ==
    /\ (screen = "Recipe" \/ Len(createLog) > 0)
       => \E i \in 1..Len(confirmLog) : confirmLog[i] \in { "success", "failure" }
    /\ Len(createLog) <= Cardinality({ i \in 1..Len(confirmLog) :
                                         confirmLog[i] \in { "success", "failure" } })

C9_Witness ==
    /\ screen = "Recipe"
    /\ Len(createLog) = 1
    /\ confirmLog = << "failure" >>

\* C13: whenever no fruit is detected, the cuisine of every createRecipe
\* request is one of the five cuisines of the cuisine selector, whatever the
\* user selected (or did not select) before confirming.
C13_CuisineIsOneOfFive ==
    ~ cs_isFruitDetected
        => \A i \in 1..Len(createLog) : createLog[i].cuisine \in cuisineOptions

\* C14: whenever RecipeScreen holds the nutrition it computes itself (for a
\* generated recipe, a selected recipe option or the mock recipe), each
\* per_serving value is the totals_per_recipe value divided by the servings
\* passed to the screen, rounded.
C14_PerServingIsTotalOverServings ==
    rs_nutrition.source \in { "fixed", "mock" }
        => \A k \in DOMAIN rs_nutrition.per_serving :
              rs_nutrition.per_serving[k]
                 = MathRound(rs_nutrition.totals_per_recipe[k], recipeParams.servings)

\* C15: in every reachable database state each scans row's user_id is the
\* id of an existing users row.
C15_ScansReferenceUsers ==
    \A sc \in db_scans : sc.user_id \in db_users

\* C16: detectFruits returns true exactly when the list is neither null nor
\* empty and the ingredients that match a fruit or smoothie vegetable are
\* strictly more than 60% of it: false when 3 of 5 match, true when 2 of 3 do.
C16_DetectFruitsStrictlyOverSixtyPercent ==
    df_detected.called
    => LET list == ingredients.list
           matching == Cardinality({ i \in 1..Len(list) :
                                        IsFruitOrSmoothieVegetable(list[i]) })
       IN  /\ df_detected.result
              <=> /\ ~ ingredients.isNull
                  /\ Len(list) > 0
                  /\ 100 * matching > 60 * Len(list)
           /\ (ingredients.isNull \/ Len(list) = 0) => ~ df_detected.result
           /\ (Len(list) = 5 /\ matching = 3) => ~ df_detected.result
           /\ (Len(list) = 3 /\ matching = 2) => df_detected.result

C16_Witness ==
    /\ df_detected.called
    /\ ~ df_detected.result
    /\ ~ ingredients.isNull
    /\ Len(ingredients.list) = 5
    /\ FruitCount(ingredients.list) = 3

\* C17: right after loadScanResults has loaded N >= 1 detected items (those of
\* getScan or the detectedItems passed by the camera screen), the first item
\* and no other is confirmed, no item is manually added, and grams and
\* grams_est of every item are non-zero numbers: the item's own value if it
\* had a non-zero one, else the other field's, else 100.
C17_LoadedItemsNormalised ==
    ( /\ cs_event = "loadScanResults"
      /\ Len(cs_items) >= 1
      /\ \A i \in 1..Len(cs_items) :
            cs_items[i].label \notin { "unknown food", "unknown food item" } )
    => /\ \A i \in 1..Len(cs_items) :
             /\ cs_items[i].confirmed <=> (i = 1)
             /\ ~ cs_items[i].manually_added
             /\ cs_items[i].grams \notin { 0, Undefined }
             /\ cs_items[i].grams_est \notin { 0, Undefined }
       /\ \E source \in ApiItemLists \cup { p.list : p \in DetectedItemsParams } :
             /\ Len(source) = Len(cs_items)
             /\ \A i \in 1..Len(source) :
                   LET given(v) == v \notin { 0, Undefined }
                       item == source[i]
                   IN  /\ cs_items[i].label = item.label
                       /\ cs_items[i].grams =
                             IF given(item.grams) THEN item.grams
                             ELSE IF given(item.grams_est) THEN item.grams_est ELSE 100
                       /\ cs_items[i].grams_est =
                             IF given(item.grams_est) THEN item.grams_est
                             ELSE IF given(item.grams) THEN item.grams ELSE 100

C17_Witness ==
    /\ cs_event = "loadScanResults"
    /\ Len(cs_items) = 2
    /\ cs_items[1].label = "banana" /\ cs_items[1].confirmed /\ cs_items[1].grams = 50
    /\ cs_items[2].label = "rice" /\ ~ cs_items[2].confirmed /\ cs_items[2].grams_est = 20

\* C18: polling of loadScanResults terminates. A getScan that succeeds with no
\* items and status 'processing' leaves the screen loading and is followed,
\* when the 2 s timer fires, by one more getScan; any other return of getScan
\* sets loading to false with a non-empty ingredient list or an error alert
\* on the screen, and no getScan is issued after that; and loading eventually
\* becomes false.
C18_PollingTerminates ==
    /\ [](cs_pc \in { "mount", "awaitGetScan", "pollWait" } => cs_loading)
    /\ [][ (cs_pc = "awaitGetScan" /\ cs_pc' = "pollWait")
           => /\ cs_loading' /\ cs_items' = cs_items
              /\ cs_getScanCalls' = cs_getScanCalls ]_vars
    /\ [][ cs_pc = "pollWait"
           => /\ cs_pc' = "awaitGetScan"
              /\ cs_loading'
              /\ cs_getScanCalls' = cs_getScanCalls + 1 ]_vars
    /\ [][ (cs_pc = "awaitGetScan" /\ cs_pc' # "pollWait")
           => /\ cs_pc' = "idle"
              /\ ~ cs_loading'
              /\ \/ Len(cs_items') > 0
                 \/ cs_alert' \in { "Failed to load scan results", "Detection Failed" } ]_vars
    /\ [][ cs_pc = "idle" => cs_pc' = "idle" /\ cs_getScanCalls' = cs_getScanCalls ]_vars
    /\ <>(~ cs_loading)

C18_Witness ==
    /\ cs_polls = MaxPolls
    /\ cs_getScanCalls = MaxPolls + 1
    /\ cs_pc = "idle"
    /\ ~ cs_loading
    /\ Len(cs_items) > 0

\* C19: the preferences selected when handleConfirm ran are the ones the
\* navigation carries, and every createRecipe request of RecipeScreen sends
\* them: without fruit, cuisine and recipe_category are the lower-cased recipe
\* type; with fruit, cuisine is 'healthy' and recipe_category the selected
\* smoothie or dessert; meal_type and skill_level are the selected meal type
\* and cooking level.
C19_SelectedPreferencesReachCreateRecipe ==
    /\ [][ (cs_event' = "handleConfirm" /\ Len(confirmLog') > Len(confirmLog))
           => /\ cs_closure'.preferences.recipeType = cs_selectedRecipeType
              /\ cs_closure'.preferences.mealType = cs_selectedMealType
              /\ cs_closure'.preferences.cookingLevel = cs_selectedCookingLevel
              /\ cs_closure'.preferences.isFruitDetected = cs_isFruitDetected
              /\ \E i \in 1..Len(OfferedRecipeTypes) :
                    cs_selectedRecipeType \in { ToLowerCase(OfferedRecipeTypes[i]),
                                                "international" } ]_vars
    /\ [][ (screen = "Confirm" /\ screen' = "Recipe")
           => recipeParams'.preferences = cs_closure.preferences ]_vars
    /\ [](\A i \in 1..Len(createLog) :
            LET selected == recipeParams.preferences
                sent == createLog[i]
            IN  /\ sent.meal_type = selected.mealType
                /\ sent.skill_level = selected.cookingLevel
                /\ sent.recipe_category = selected.recipeType
                /\ IF selected.isFruitDetected
                   THEN /\ sent.cuisine = "healthy"
                        /\ sent.recipe_category \in { "smoothie", "dessert" }
                   ELSE sent.cuisine = selected.recipeType)

C19_Witness ==
    /\ Len(createLog) = 1
    /\ createLog[1].cuisine = "mexican"
    /\ createLog[1].recipe_category = "mexican"
    /\ createLog[1].meal_type = "dinner"
    /\ createLog[1].skill_level = "advanced"
    /\ cs_selectedRecipeType = "italian"
    /\ cs_selectedMealType = "snack"

\* C20: generateRecipe waits for createRecipe at most 15 s. A call whose race
\* is undecided has waited no longer than that; its timer fires exactly when
\* 15 s have passed without a createRecipe result, and then the call ends,
\* loading becomes false and the Connection Issue alert is shown; the result
\* of a request whose race was lost to the timer changes none of recipe,
\* nutrition, recipeOptions, showRecipeSelection and loading.
C20_CreateRecipeRaceTimeout ==
    /\ [](\A i \in 1..Len(rs_calls) :
            rs_calls[i].pc = "awaitCreate" => rs_calls[i].elapsed <= RaceTimeout)
    /\ [][ \A i \in 1..Len(rs_calls) :
             ( /\ rs_calls[i].pc = "awaitCreate"
               /\ rs_calls[i].elapsed = RaceTimeout
               /\ Len(rs_calls') >= i
               /\ rs_calls'[i] # rs_calls[i]
               /\ rs_calls'[i].request = "inflight" )
             => /\ rs_calls'[i].pc = "done"
                /\ rs_calls'[i].timer = "fired"
                /\ ~ rs_loading'
                /\ rs_alerts' = Append(rs_alerts, "Connection Issue")
                /\ GenerateRecipeAlert("Request timeout after 15 seconds") = "Connection Issue" ]_vars
    /\ [][ \A i \in 1..Len(rs_calls) :
             ( /\ rs_calls[i].timer = "armed"
               /\ Len(rs_calls') >= i
               /\ rs_calls'[i].timer = "fired" )
             => /\ rs_calls[i].elapsed = RaceTimeout
                /\ rs_calls[i].request = "inflight" ]_vars
    /\ [][ (\E i \in 1..Len(rs_calls) :
               /\ rs_calls[i].timer = "fired"
               /\ rs_calls[i].request = "inflight"
               /\ Len(rs_calls') >= i
               /\ rs_calls'[i].request # "inflight")
           => UNCHANGED << rs_recipe, rs_nutrition, rs_recipeOptions,
                           rs_showRecipeSelection, rs_loading >> ]_vars

C20_Witness ==
    /\ rs_mounted
    /\ \E i \in 1..Len(rs_calls) :
          /\ rs_calls[i].pc = "done"
          /\ rs_calls[i].timer = "fired"
          /\ rs_calls[i].request = "completed"
    /\ rs_recipe = NoRecipe
    /\ ~ rs_loading

\* C21: a run of handlePickImage or of the native handleTakePhoto calls
\* capture/pick, getPresignedUrl, uploadImage, startScan and navigate in this
\* order, each one only after the one before returned success; when a call
\* returns failure an alert is shown, loading is set to false, the screen does
\* not change and the run makes no further call.
C21_CapturePipelineInOrder ==
    /\ [](LET order == << "capture", "getPresignedUrl", "uploadImage", "startScan", "navigate" >>
              stepOf(entry) == IF entry.step \in { "takePhoto", "pickImage" }
                               THEN "capture" ELSE entry.step
          IN  /\ Len(cam_log) <= Len(order)
              /\ \A k \in 1..Len(cam_log) :
                    /\ stepOf(cam_log[k]) = order[k]
                    /\ k < Len(cam_log) => cam_log[k].result = "success"
              /\ (Len(cam_log) > 0 /\ cam_log[Len(cam_log)].step = "navigate")
                    => cam_log[Len(cam_log)].result = "success")
    /\ [][ ( /\ Len(cam_log) > 0
             /\ cam_log[Len(cam_log)].result = "pending"
             /\ cam_log' = [ cam_log EXCEPT ![Len(cam_log)].result = "failure" ] )
           => /\ cam_alert' \in { "User canceled", "Failed to get upload URL",
                                  "Failed to upload image", "Failed to start scan" }
              /\ ~ cam_loading'
              /\ screen' = screen ]_vars
    /\ [][ ( /\ Len(cam_log) > 0
             /\ cam_log[Len(cam_log)].result = "failure"
             /\ cam_log' # cam_log )
           => /\ Len(cam_log') <= 1
              /\ \A k \in 1..Len(cam_log') : cam_log'[k].result = "pending" ]_vars
    /\ [][ ( /\ Len(cam_log') > 0
             /\ cam_log' # cam_log
             /\ cam_log'[Len(cam_log')].step = "navigate" )
           => screen' = "Confirm" ]_vars

C21_Witness ==
    /\ Len(cam_log) = 4
    /\ cam_log[1].step = "pickImage"
    /\ cam_log[4] = [ step |-> "startScan", result |-> "failure" ]
    /\ cam_alert = "Failed to start scan"
    /\ ~ cam_loading
    /\ screen = "Camera"

\* C22: after a successful createRecipe response that carries recipe_ids,
\* recipeOptions holds all the returned recipes; when generateRecipe has dealt
\* with the response loading is false, and with exactly one recipe that recipe
\* is the current recipe (set directly or after getRecipe) and the selection
\* list is not shown, while with two or more the selection list is shown and
\* recipe is unset, and stays unset until handleRecipeSelection sets it
C22_RecipeIdsResponseHandled ==
    /\ [][ \A i \in 1..MaxGenerateCalls, response \in CreateRecipeResponses :
              (CreateRecipeReturn(i, response) /\ response.success /\ response.shape = "recipe_ids")
              => rs_recipeOptions' = response.recipes ]_vars
    /\ [][ \A i \in 1..MaxGenerateCalls :
              ( /\ i \in 1..Len(rs_calls)
                /\ i \in 1..Len(rs_calls')
                /\ rs_calls'[i].pc = "done"
                /\ \/ rs_calls[i].pc = "awaitGetRecipeOfIds"
                   \/ rs_calls[i].pc = "awaitCreate" /\ rs_event' = "generateRecipe.recipe_ids" )
              => /\ ~ rs_loading'
                 /\ Len(rs_recipeOptions') = 1
                    => /\ rs_recipe' = [ source |-> rs_recipeOptions'[1], index |-> 1 ]
                       /\ ~ rs_showRecipeSelection'
                 /\ Len(rs_recipeOptions') >= 2
                    => /\ rs_recipe' = NoRecipe
                       /\ rs_showRecipeSelection' ]_vars
    /\ [][ ( /\ rs_showRecipeSelection
             /\ Len(rs_recipeOptions) >= 2
             /\ rs_recipe = NoRecipe
             /\ rs_recipe' # NoRecipe )
           => rs_event' = "handleRecipeSelection" ]_vars

\* C23: when handleRecipeSelection needed getRecipe and getRecipe failed, recipe,
\* nutrition, selectedRecipeIndex and showRecipeSelection keep their values, the
\* alert 'Failed to load selected recipe' is shown and loading is false; when
\* the selection succeeds, with or without getRecipe, recipe is the selected
\* option, selectedRecipeIndex its index, showRecipeSelection and loading false
C23_SelectionErrorKeepsState ==
    /\ [][ SelectionGetRecipeReturn(FALSE)
           => /\ UNCHANGED << rs_recipe, rs_nutrition, rs_selectedRecipeIndex, rs_showRecipeSelection >>
              /\ rs_alerts' = Append(rs_alerts, "Failed to load selected recipe")
              /\ ~ rs_loading' ]_vars
    /\ [][ SelectionGetRecipeReturn(TRUE)
           => /\ rs_recipe' = [ source |-> "database", index |-> rs_selection.index ]
              /\ rs_selectedRecipeIndex' = rs_selection.index - 1
              /\ ~ rs_showRecipeSelection'
              /\ ~ rs_loading'
              /\ rs_alerts' = rs_alerts ]_vars
    /\ [][ (rs_mounted' /\ rs_selection.pc = "awaitGetRecipe" /\ rs_selection' # rs_selection)
           => \/ /\ UNCHANGED << rs_recipe, rs_nutrition, rs_selectedRecipeIndex, rs_showRecipeSelection >>
                 /\ rs_alerts' = Append(rs_alerts, "Failed to load selected recipe")
                 /\ ~ rs_loading'
              \/ /\ rs_recipe' = [ source |-> "database", index |-> rs_selection.index ]
                 /\ rs_selectedRecipeIndex' = rs_selection.index - 1
                 /\ ~ rs_showRecipeSelection'
                 /\ ~ rs_loading'
                 /\ rs_alerts' = rs_alerts ]_vars
    /\ [][ (rs_event' = "handleRecipeSelection" /\ rs_selection = NoSelection /\ rs_selection' = NoSelection)
           => \E index \in 1..Len(rs_recipeOptions) :
                 /\ rs_recipe' = [ source |-> rs_recipeOptions[index], index |-> index ]
                 /\ rs_selectedRecipeIndex' = index - 1
                 /\ ~ rs_showRecipeSelection'
                 /\ ~ rs_loading' ]_vars

\* getRecipe failed for the second option while the first one was on display
C23_Witness ==
    /\ rs_event = "handleRecipeSelection"
    /\ rs_selection = NoSelection
    /\ rs_alerts = << "Failed to load selected recipe" >>
    /\ ~ rs_loading
    /\ rs_showRecipeSelection
    /\ rs_recipe = [ source |-> "generated", index |-> 1 ]
    /\ rs_selectedRecipeIndex = 0

=============================================================================
